---------------------------- MODULE PhoneAccess -----------------------------
(***************************************************************************)
(* Who may open a plot without an account: phones listed on plots, the     *)
(* plots' passwords, the public lookup that turns a phone and a password   *)
(* into a session, the two failure counters that stop a lookup, and what   *)
(* the session opens later, when either may have changed.                  *)
(*                                                                         *)
(* The lookup is in three steps, because it awaits twice: the counters are *)
(* tested before the query, the password is compared with what the query   *)
(* read, and only then is the failure counted or the session minted.       *)
(*                                                                         *)
(* Abstracted: digest and bcrypt hash of a password, always written        *)
(* together, to the password; the signature of a token, to a value that    *)
(* cannot be made up; its expiry, to Forget; the route's own rate limit,   *)
(* left out.                                                               *)
(***************************************************************************)
EXTENDS Sequences, Naturals, FiniteSets

CONSTANTS
    Plots,
    Phones,
    Passwords,
    Clients,      \* each has one request under way at most
    Addresses,
    AddressOf,
    Listed, Given, \* the phones and passwords of the plots at first
    Limit,        \* PER_IP_PHONE_LIMIT: failures from an address for a phone
    GlobalLimit,  \* PER_PHONE_LIMIT: failures for a phone
    MaxVersion,   \* bound on credential_version
    MaxEvents,    \* bound on changes of the office, outages and restarts
    Nobody

VARIABLES
    usable,      \* plots that are active, and their supplier too
    listed,      \* active plot_access_phones, per plot
    passwords,   \* per plot, its passwords so far: the last one is the
                 \* credential, their number is credential_version
    enforced,    \* PUBLIC_PLOT_PASSWORD_ENFORCEMENT
    perAddress,  \* tier 1 of the lockout
    perPhone,    \* tier 2
    storageUp,   \* the counters' storage answers
    events,
    outages,     \* failures of that storage so far
    request,     \* the request each client has under way
    session,     \* the session token each client holds
    opened       \* the inspection token given in the last step

settings == <<usable, listed, passwords>>
counters == <<perAddress, perPhone, storageUp, outages>>
clients == <<request, session>>
phoneVars == <<settings, enforced, counters, clients, opened, events>>

ASSUME AddressAssumption == AddressOf \in [Clients -> Addresses]
ASSUME TablesAtFirstAssumption ==
    /\ Listed \in [Plots -> SUBSET Phones]
    /\ Given \in [Plots -> Seq(Passwords)] /\ \A p \in Plots : Len(Given[p]) <= MaxVersion
ASSUME LimitAssumption == {Limit, GlobalLimit} \subseteq Nat \ {0}
ASSUME PhoneBoundsAssumption == {MaxVersion, MaxEvents} \subseteq Nat
ASSUME ClientsAssumption == IsFiniteSet(Clients)

(* What a token vouches for: a row of plot_access_phones, known by its     *)
(* plot and phone, and the version of the credential that was proved, 0 in *)
(* a token of the time before passwords were enforced.  typed is not in    *)
(* the token: it is what its holder entered to get it.                     *)
Grant == [plot : Plots, phone : Phones, version : 0 .. MaxVersion]
Session == [kind : {"none", "phone", "password"}, grants : SUBSET Grant,
            typed : Passwords \cup {Nobody}]
Opened == [grant : Grant, typed : Passwords \cup {Nobody}, proved : BOOLEAN]

Request == [at : {"idle", "query", "verify", "answer", "enter"},
            phone : Phones \cup {Nobody}, typed : Passwords \cup {Nobody},
            found : SUBSET Grant]

Idle == [at |-> "idle", phone |-> Nobody, typed |-> Nobody, found |-> {}]
NoSession == [kind |-> "none", grants |-> {}, typed |-> Nobody]

PhoneTypeOK ==
    /\ usable \subseteq Plots
    /\ listed \in [Plots -> SUBSET Phones]
    /\ passwords \in [Plots -> Seq(Passwords)]
    /\ \A p \in Plots : Len(passwords[p]) <= MaxVersion
    /\ perAddress \in [Addresses -> [Phones -> Nat]]
    /\ perPhone \in [Phones -> Nat]
    /\ {enforced, storageUp} \subseteq BOOLEAN
    /\ events \in 0 .. MaxEvents /\ outages \in 0 .. MaxEvents
    /\ request \in [Clients -> Request]
    /\ session \in [Clients -> Session]
    /\ opened \in Opened \cup {Nobody}

Version(p) == Len(passwords[p])

PhoneInit ==
    /\ usable = Plots
    /\ listed = Listed
    /\ passwords = Given
    /\ enforced \in BOOLEAN
    /\ perAddress = [a \in Addresses |-> [f \in Phones |-> 0]]
    /\ perPhone = [f \in Phones |-> 0]
    /\ storageUp = TRUE /\ outages = 0 /\ events = 0
    /\ request = [c \in Clients |-> Idle]
    /\ session = [c \in Clients |-> NoSession]
    /\ opened = Nobody

-----------------------------------------------------------------------------
(* What the office changes, each under the plot's lock and in one          *)
(* transaction.                                                            *)

Event == events < MaxEvents /\ events' = events + 1

(* The whole set at once.  A row that comes back keeps its id, so its      *)
(* sessions are good again.                                                *)
ReplacePhones(p, phones) ==
    /\ Event
    /\ phones # listed[p]
    /\ listed' = [listed EXCEPT ![p] = phones]
    /\ UNCHANGED <<usable, passwords, enforced, counters, clients>>

SetPassword(p, password) ==
    /\ Event
    /\ Version(p) < MaxVersion
    /\ passwords' = [passwords EXCEPT ![p] = Append(@, password)]
    /\ UNCHANGED <<usable, listed, enforced, counters, clients>>

SetUsable(p) ==
    /\ Event
    /\ usable' = IF p \in usable THEN usable \ {p} ELSE usable \cup {p}
    /\ UNCHANGED <<listed, passwords, enforced, counters, clients>>

(* The flag changes only with a restart, which loses what is under way and *)
(* leaves the counters, kept in the shared storage.                        *)
Restart ==
    /\ Event
    /\ enforced' \in BOOLEAN
    /\ request' = [c \in Clients |-> Idle]
    /\ UNCHANGED <<settings, counters, session>>

-----------------------------------------------------------------------------
(* The lockout.  It counts failures only, and when its storage fails it    *)
(* neither stops a lookup nor counts one.                                  *)

\* Mutant: one failure more than the limit.
is_locked_out_Beyond(a, f) ==
    storageUp /\ (perAddress[a][f] > Limit \/ perPhone[f] > GlobalLimit)

is_locked_out(a, f) ==
    storageUp /\ (perAddress[a][f] >= Limit \/ perPhone[f] >= GlobalLimit)

register_failure(a, f) ==
    IF storageUp
    THEN /\ perAddress' = [perAddress EXCEPT ![a][f] = @ + 1]
         /\ perPhone' = [perPhone EXCEPT ![f] = @ + 1]
    ELSE UNCHANGED <<perAddress, perPhone>>

clear_failures(a, f) ==
    IF storageUp
    THEN /\ perAddress' = [perAddress EXCEPT ![a][f] = 0]
         /\ perPhone' = [perPhone EXCEPT ![f] = 0]
    ELSE UNCHANGED <<perAddress, perPhone>>

AddressWindowEnds(a, f) ==
    /\ perAddress[a][f] > 0
    /\ perAddress' = [perAddress EXCEPT ![a][f] = 0]
    /\ UNCHANGED <<settings, enforced, clients, perPhone, storageUp, outages, events>>

PhoneWindowEnds(f) ==
    /\ perPhone[f] > 0
    /\ perPhone' = [perPhone EXCEPT ![f] = 0]
    /\ UNCHANGED <<settings, enforced, clients, perAddress, storageUp, outages, events>>

StorageFails ==
    /\ Event
    /\ storageUp
    /\ storageUp' = FALSE /\ outages' = outages + 1
    /\ UNCHANGED <<settings, enforced, clients, perAddress, perPhone>>

StorageReturns ==
    /\ ~storageUp
    /\ storageUp' = TRUE
    /\ UNCHANGED <<settings, enforced, clients, perAddress, perPhone, outages, events>>

-----------------------------------------------------------------------------
(* The lookup.                                                             *)

(* Rows of the phone that open a plot now.                                 *)
Reachable(f) == {p \in usable : f \in listed[p]}

(* Enforced: locked out, nothing more is done; a password that is missing  *)
(* or breaks the policy is a failure like a wrong one.                     *)
Ask(c, f, password) ==
    /\ enforced /\ request[c].at = "idle"
    /\ ~is_locked_out(AddressOf[c], f)
    /\ IF password = Nobody
       THEN register_failure(AddressOf[c], f) /\ UNCHANGED request
       ELSE /\ request' = [request EXCEPT ![c] = [Idle EXCEPT
                 !.at = "query", !.phone = f, !.typed = password]]
            /\ UNCHANGED <<perAddress, perPhone>>
    /\ UNCHANGED <<settings, enforced, storageUp, outages, session, events>>

\* Mutant: the version is the one the next password will have.
lookup_active_access_rows_by_phone_and_digest_NextVersion(f, password) ==
    {[plot |-> p, phone |-> f, version |-> Version(p) + 1] :
        p \in {q \in Reachable(f) : Version(q) > 0 /\ passwords[q][Version(q)] = password}}

lookup_active_access_rows_by_phone_and_digest(f, password) ==
    {[plot |-> p, phone |-> f, version |-> Version(p)] :
        p \in {q \in Reachable(f) : Version(q) > 0 /\ passwords[q][Version(q)] = password}}

Query(c) ==
    /\ request[c].at = "query"
    /\ request' = [request EXCEPT
         ![c].at = "verify",
         ![c].found = lookup_active_access_rows_by_phone_and_digest(request[c].phone, request[c].typed)]
    /\ UNCHANGED <<settings, counters, enforced, session, events>>

(* bcrypt is over: what it checked is what the query read.                 *)
Verify(c) ==
    /\ request[c].at = "verify"
    /\ IF request[c].found = {}
       THEN /\ register_failure(AddressOf[c], request[c].phone)
            /\ request' = [request EXCEPT ![c] = Idle]
       ELSE /\ clear_failures(AddressOf[c], request[c].phone)
            /\ request' = [request EXCEPT ![c].at = "answer"]
    /\ UNCHANGED <<settings, enforced, storageUp, outages, session, events>>

PhoneQuery(c, f) ==
    /\ ~enforced /\ request[c].at = "idle"
    /\ Reachable(f) # {}
    /\ request' = [request EXCEPT ![c] = [Idle EXCEPT
         !.at = "answer", !.phone = f,
         !.found = {[plot |-> p, phone |-> f, version |-> 0] : p \in Reachable(f)}]]
    /\ UNCHANGED <<settings, counters, enforced, session, events>>

(* A code scanned must be of a plot found: another one's, and the token is *)
(* dropped with the answer.                                                *)
Answer(c, scanned) ==
    /\ request[c].at = "answer"
    /\ session' =
         IF scanned = Nobody \/ \E g \in request[c].found : g.plot = scanned
         THEN [session EXCEPT ![c] =
                [kind |-> IF enforced THEN "password" ELSE "phone",
                 grants |-> request[c].found, typed |-> request[c].typed]]
         ELSE session
    /\ request' = [request EXCEPT ![c] = Idle]
    /\ UNCHANGED <<settings, counters, enforced, events>>

-----------------------------------------------------------------------------
(* What a session opens.                                                   *)

\* Mutant: the version in the token is not compared.
_resolve_password_session_AnyVersion(c) ==
    {g \in session[c].grants :
        session[c].kind = "password" /\ g.plot \in Reachable(g.phone)}

(* A password token is good for the grants whose row is reachable still    *)
(* and whose version is still the credential's.  Without enforcement the   *)
(* rows alone are asked for.  A token of the other kind is refused.        *)
_resolve_password_session(c) ==
    {g \in session[c].grants :
        /\ session[c].kind = "password"
        /\ g.plot \in Reachable(g.phone)
        /\ g.version = Version(g.plot)}

StillGranted(c) ==
    IF enforced
    THEN _resolve_password_session(c)
    ELSE {g \in session[c].grants :
             session[c].kind = "phone" /\ g.plot \in Reachable(g.phone)}

(* /plots mints nothing and /select-plot resolves the session the same     *)
(* way, then reads the plot again.  The inspection token binds the         *)
(* credential's live version.                                              *)
SelectPlot(c, p) ==
    /\ request[c].at = "idle"
    /\ \E g \in StillGranted(c) :
         /\ g.plot = p
         /\ request' = [request EXCEPT ![c] = [Idle EXCEPT
              !.at = "enter", !.phone = g.phone, !.typed = session[c].typed,
              !.found = {[g EXCEPT !.version = IF enforced THEN Version(p) ELSE 0]}]]
    /\ UNCHANGED <<settings, counters, enforced, session, events>>

(* The plot is read by itself, so its phones may have changed since; and   *)
(* it may be between two cycles (which PlotLifecycle opens and closes).    *)
Enter(c) ==
    /\ request[c].at = "enter"
    /\ request' = [request EXCEPT ![c] = Idle]
    /\ \/ \E g \in request[c].found :
            /\ g.plot \in usable
            /\ opened' = [grant |-> g, typed |-> request[c].typed, proved |-> enforced]
       \/ opened' = Nobody
    /\ UNCHANGED <<settings, counters, enforced, session, events>>

(* A session expires, and a page forgets it.                               *)
Forget(c) ==
    /\ request[c].at = "idle" /\ session[c] # NoSession
    /\ session' = [session EXCEPT ![c] = NoSession]
    /\ UNCHANGED <<settings, counters, enforced, request, events>>

-----------------------------------------------------------------------------
OpensNothing ==
    \/ \E p \in Plots : \E phones \in SUBSET Phones : ReplacePhones(p, phones)
    \/ \E p \in Plots, password \in Passwords : SetPassword(p, password)
    \/ \E p \in Plots : SetUsable(p)
    \/ Restart \/ StorageFails \/ StorageReturns
    \/ \E a \in Addresses, f \in Phones : AddressWindowEnds(a, f)
    \/ \E f \in Phones : PhoneWindowEnds(f)
    \/ \E c \in Clients :
         \/ \E f \in Phones : PhoneQuery(c, f)
         \/ \E f \in Phones, password \in Passwords \cup {Nobody} : Ask(c, f, password)
         \/ Query(c) \/ Verify(c) \/ Forget(c)
         \/ \E p \in Plots \cup {Nobody} : Answer(c, p)
         \/ \E p \in Plots : SelectPlot(c, p)

PhoneNext ==
    \/ OpensNothing /\ opened' = Nobody
    \/ \E c \in Clients : Enter(c)

PhoneSpec == PhoneInit /\ [][PhoneNext]_phoneVars

-----------------------------------------------------------------------------
Proves(g, typed) ==
    g.version \in 1 .. Version(g.plot) /\ passwords[g.plot][g.version] = typed

(* Under enforcement a plot is opened only for a holder who entered the    *)
(* password whose version the token carries, however the password changes  *)
(* between the query, the minting, the choice of the plot and its opening, *)
(* and whatever token is left from before passwords were asked for.        *)
OpenedByProof ==
    /\ \A c \in Clients : session[c].kind = "password" =>
         \A g \in session[c].grants : Proves(g, session[c].typed)
    /\ (opened # Nobody /\ opened.proved) => Proves(opened.grant, opened.typed)

(* Lookups past the counters of an address and a phone, and counted yet.   *)
Guessing(a, f) ==
    {c \in Clients : /\ AddressOf[c] = a /\ request[c].phone = f
                     /\ request[c].at \in {"query", "verify"}}

At(a) == {c \in Clients : AddressOf[c] = a}

(* The counters are tested before a lookup and hit after its failure, so   *)
(* lookups made at once all pass.  What they may overshoot by is no more   *)
(* than their number, as long as the storage never failed: failures in a   *)
(* window, counted and to come, stay below the limit plus the requests one *)
(* address can have under way, and below the global limit plus all.        *)
GuessesAreBounded ==
    outages = 0 =>
        /\ \A a \in Addresses, f \in Phones :
             At(a) # {} =>
               perAddress[a][f] + Cardinality(Guessing(a, f)) < Limit + Cardinality(At(a))
        /\ \A f \in Phones :
             perPhone[f] + Cardinality(UNION {Guessing(a, f) : a \in Addresses})
                < GlobalLimit + Cardinality(Clients)

\* A form is opened by who proved number and password, and guessing at them is bounded.
LookupsAreGuarded == PhoneTypeOK /\ OpenedByProof /\ GuessesAreBounded

=============================================================================
