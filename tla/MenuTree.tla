------------------------------- MODULE MenuTree -------------------------------
(***************************************************************************)
(* The catalogue of menus, what administrators do to it, and the tree that *)
(* is built of it for the sidebar of one user.                             *)
(*                                                                         *)
(* MenuItem.children is declared with remote_side = MenuItem.id: to        *)
(* SQLAlchemy it is the many-to-one side, the parent of the item, and its  *)
(* cascade "all" takes the parent along when the item is deleted.          *)
(*                                                                         *)
(* Abstracted: labels, icons and paths; order_index, which orders siblings *)
(* and hides none.                                                         *)
(***************************************************************************)
EXTENDS FiniteSets, Naturals

CONSTANTS
    Menus,      \* keys of menu items
    Gates,      \* permission keys that menus require
    Ungated,    \* no key: the menu is open to everyone
    Root,       \* no parent
    MaxMenuEdits

VARIABLES
    menu,       \* per key: the row, or Root when there is none
    menuEdits   \* history: requests so far

menuVars == <<menu, menuEdits>>

Item == [parent : Menus \cup {Root}, gate : Gates \cup {Ungated}]

ASSUME MenusAssumption == IsFiniteSet(Menus)
ASSUME RootAssumption == Root \notin Menus /\ Root \notin Item

Catalogue == {m \in Menus : menu[m] # Root}
ChildrenOf(m) == {c \in Catalogue : menu[c].parent = m}

\* Parents are there: the foreign key.
MenuTypeOK == /\ menu \in [Menus -> Item \cup {Root}]
              /\ \A m \in Catalogue : menu[m].parent \in Catalogue \cup {Root}

MenuInit == /\ menu \in [Menus -> [parent : {Root}, gate : Gates \cup {Ungated}] \cup {Root}]
            /\ menuEdits = 0

-----------------------------------------------------------------------------
(* The catalogue *)

CreateMenu(m, item) == /\ m \notin Catalogue
                       /\ item.parent \in Catalogue \cup {Root}
                       /\ menu' = [menu EXCEPT ![m] = item]

\* patch_menu: any menu may become the parent, the item itself and those below it included.
PatchMenu(m, item) == /\ m \in Catalogue
                      /\ item.parent \in Catalogue \cup {Root}
                      /\ menu' = [menu EXCEPT ![m] = item]

\* From a menu to its parent, to the parent's parent, ... at most d times.
Lineage[d \in 0 .. Cardinality(Menus)] ==
    [m \in Menus |->
        IF d = 0 \/ menu[m] = Root \/ menu[m].parent = Root THEN {m}
        ELSE {m} \cup Lineage[d - 1][menu[m].parent]]

AncestorsAndSelf(m) == Lineage[Cardinality(Menus)][m]

\* delete_menu: refused when there are menus below. The cascade of children takes the
\* parent, its parent, ...; the other menus below these lose their parent. Rows that are
\* each other's parents have no order to be deleted in: the flush fails.
DeleteMenu(m) ==
    /\ m \in Catalogue /\ ChildrenOf(m) = {}
    /\ \E top \in AncestorsAndSelf(m) : menu[top].parent = Root
    /\ LET gone == AncestorsAndSelf(m)
       IN menu' = [n \in Menus |-> IF n \in gone THEN Root
                                   ELSE IF n \in Catalogue /\ menu[n].parent \in gone
                                   THEN [menu[n] EXCEPT !.parent = Root]
                                   ELSE menu[n]]

-----------------------------------------------------------------------------
(* _build_tree *)

Allows(allowed, m) == menu[m].gate = Ungated \/ menu[m].gate \in allowed

\* Mutant: a group is judged by the children that survive the filter.
IsGroup_Surviving(allowed, m) == \E c \in ChildrenOf(m) : Allows(allowed, c)

\* A node is a group if the catalogue gives it children, whatever becomes of them.
IsGroup(allowed, m) == ChildrenOf(m) # {}

Kept(allowed, m) == m \in Catalogue /\ Allows(allowed, m)

\* walk(p), with what is shown below each child; d bounds the depth.
Walk(allowed) ==
    LET below[d \in 0 .. Cardinality(Menus)] ==
            [p \in Menus \cup {Root} |->
                IF d = 0 THEN {}
                ELSE UNION {LET shown == below[d - 1][m]
                            IN IF menu[m].gate = Ungated /\ IsGroup(allowed, m) /\ shown = {}
                               THEN {} ELSE {m} \cup shown :
                            m \in {c \in Menus : Kept(allowed, c) /\ menu[c].parent = p}}]
    IN below[Cardinality(Menus)]

Sidebar(allowed) == Walk(allowed)[Root]

\* list_menus: the same walk without a filter.
Listed == {m \in Catalogue : \E top \in AncestorsAndSelf(m) : menu[top].parent = Root}

-----------------------------------------------------------------------------

MenuNext ==
    /\ menuEdits < MaxMenuEdits /\ menuEdits' = menuEdits + 1
    /\ \E m \in Menus : \/ \E item \in Item : CreateMenu(m, item) \/ PatchMenu(m, item)
                        \/ DeleteMenu(m)

MenuSpec == MenuInit /\ [][MenuNext]_menuVars

-----------------------------------------------------------------------------
(* Properties *)

\* Where a menu leads to: not a group that is open to all.
Leads(m) == menu[m].gate # Ungated \/ ChildrenOf(m) = {}

Open(allowed, m) == /\ m \in Listed
                    /\ \A n \in AncestorsAndSelf(m) : Allows(allowed, n)

\* The sidebar shows a menu exactly if the user may see it and all above it, and it leads
\* somewhere or something below it that he may see does: no dead-end group, and nothing
\* hidden by a sibling that is.
SidebarIsWhatLeads ==
    \A allowed \in SUBSET Gates :
        Sidebar(allowed) =
            {m \in Catalogue : /\ Open(allowed, m)
                           /\ \E n \in Catalogue : /\ Leads(n) /\ Open(allowed, n)
                                               /\ m \in AncestorsAndSelf(n)}

\* More permissions never hide a menu.
SidebarGrows ==
    \A allowed \in SUBSET Gates : \A fewer \in SUBSET allowed :
        Sidebar(fewer) \subseteq Sidebar(allowed)

\* The sidebar is true to the catalogue and to the permissions.
MenusAreShown == MenuTypeOK /\ SidebarIsWhatLeads /\ SidebarGrows

=============================================================================
