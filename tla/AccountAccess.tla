---------------------------- MODULE AccountAccess ----------------------------
(***************************************************************************)
(* Accounts, their sessions and who may change them (auth/core.go,         *)
(* auth/postgres.go, auth/http.go).                                        *)
(*                                                                         *)
(* A login reads the account, checks the password, counts or clears the    *)
(* failures and opens a session, each in a statement of its own, while     *)
(* other logins and administrators act on the same account.  A change of   *)
(* access is one transaction under the advisory lock of all such changes   *)
(* and the row lock of its account.  Passwords, cookies and delegations    *)
(* are not modelled: a request is known by its session, whose account is   *)
(* read again for every request.                                           *)
(***************************************************************************)
EXTENDS Integers, Sequences, FiniteSets

CONSTANTS
    Users,         \* registered e-mail addresses
    Sessions,      \* session tokens, each issued once
    Callers,       \* requests that may be under way at one time
    FailureLimit,  \* failed logins that lock an account (5)
    MaxFailures,   \* bound: failed logins counted
    MaxChanges,    \* bound: access events of an account
    Targets        \* bound: the access that administrators give

Nobody == "nobody"

ASSUME AccountsAssumption ==
    /\ FailureLimit \in Nat \ {0} /\ MaxFailures \in Nat /\ MaxChanges \in Nat \ {0}
    /\ Nobody \notin Callers

VARIABLES
    account,   \* app_users
    session,   \* app_sessions: the user of every issued token
    trail,     \* app_user_events of every account
    caller,    \* the logins and changes under way
    adminLock  \* the advisory lock: the caller that holds it

accountVars == <<account, session, trail, caller, adminLock>>

-----------------------------------------------------------------------------
Unrecorded == [role |-> "not said", status |-> "not said"]
Roles == {"admin", "annotator", "business"}
ActiveAdmin == [role |-> "admin", status |-> "active"]
Access == [role : Roles, status : {"pending", "active", "disabled"}]

\* locked_until: null, in the future, or in the past.
Account == [access : Access, failures : 0..MaxFailures, lock : {"open", "locked", "lapsed"}]
NoAccount == [access |-> [role |-> "business", status |-> "pending"], failures |-> 0, lock |-> "absent"]

IdleCaller == [at |-> "idle"]
CallerStates ==
    {IdleCaller}
    \cup [at : {"verifying"}, user : Users, status : {"pending", "active", "disabled"}]
    \cup [at : {"opening"}, user : Users]
    \cup [at : {"asking"}, user : Users, to : Targets]
    \cup [at : {"changing"}, user : Users, from : Access, to : Targets]

AccountsTypeOK ==
    /\ account \in [Users -> Account \cup {NoAccount}]
    /\ session \in [Sessions -> Users \cup {"unused", "deleted"}]
    /\ \A u \in Users : Len(trail[u]) <= MaxChanges
    /\ caller \in [Callers -> CallerStates]
    /\ adminLock \in Callers \cup {Nobody}

\* The administrator of the first start, and nobody else.
AccountsInit(first) ==
    /\ account = [u \in Users |-> IF u = first
                                  THEN [access |-> ActiveAdmin, failures |-> 0, lock |-> "open"]
                                  ELSE NoAccount]
    /\ session = [s \in Sessions |-> "unused"]
    /\ trail = [u \in Users |-> <<>>]
    /\ caller = [c \in Callers |-> IdleCaller]
    /\ adminLock = Nobody

-----------------------------------------------------------------------------
ActiveAdmins == {u \in Users : account[u].access = ActiveAdmin}

\* Another transaction holds the row of user u until it commits.
RowHeld(u) == \E c \in Callers : caller[c].at = "changing" /\ caller[c].user = u

Proceed(c, state) == caller' = [caller EXCEPT ![c] = state]

Register(u) ==
    /\ account[u] = NoAccount
    /\ account' = [account EXCEPT ![u].lock = "open"]
    /\ UNCHANGED <<session, trail, caller, adminLock>>

\* Login reads the account once: what it read of the status decides later.
BeginLogin(c, u) ==
    /\ caller[c] = IdleCaller
    /\ account[u].lock \in {"open", "lapsed"}
    /\ Proceed(c, [at |-> "verifying", user |-> u, status |-> account[u].access.status])
    /\ UNCHANGED <<account, session, trail, adminLock>>

\* Mutant of Counted: a lapsed lock is lifted without starting to count again.
Counted_on(a) ==
    LET failures == a.failures + 1 IN
    [a EXCEPT !.failures = failures,
              !.lock = IF failures >= FailureLimit /\ a.lock # "lapsed" THEN "locked" ELSE "open"]

\* RecordFailedLogin: the count starts again after a lock.
Counted(a) ==
    LET failures == IF a.lock = "lapsed" THEN 1 ELSE a.failures + 1 IN
    [a EXCEPT !.failures = failures,
              !.lock = IF failures >= FailureLimit THEN "locked" ELSE "open"]

\* The password is wrong.
RecordFailedLogin(c) ==
    LET u == caller[c].user IN
    /\ caller[c].at = "verifying"
    /\ ~RowHeld(u)
    /\ account[u].failures < MaxFailures
    /\ account' = [account EXCEPT ![u] = Counted(@)]
    /\ Proceed(c, IdleCaller)
    /\ UNCHANGED <<session, trail, adminLock>>

\* The password is right: the failures are cleared, also those of other logins.
ClearFailedLogins(c) ==
    LET u == caller[c].user IN
    /\ caller[c].at = "verifying"
    /\ ~RowHeld(u)
    /\ account' = [account EXCEPT ![u].failures = 0, ![u].lock = "open"]
    /\ Proceed(c, IF caller[c].status = "active" THEN [at |-> "opening", user |-> u] ELSE IdleCaller)
    /\ UNCHANGED <<session, trail, adminLock>>

CreateSession(c, s) ==
    /\ caller[c].at = "opening"
    /\ session[s] = "unused"
    /\ session' = [session EXCEPT ![s] = caller[c].user]
    /\ Proceed(c, IdleCaller)
    /\ UNCHANGED <<account, trail, adminLock>>

\* Logout, and the end of the twelve hours.
DeleteSession(s) ==
    /\ session[s] \in Users
    /\ session' = [session EXCEPT ![s] = "deleted"]
    /\ UNCHANGED <<account, trail, caller, adminLock>>

LockLapses(u) ==
    /\ account[u].lock = "locked"
    /\ account' = [account EXCEPT ![u].lock = "lapsed"]
    /\ UNCHANGED <<session, trail, caller, adminLock>>

-----------------------------------------------------------------------------
\* What the three roles may use of the platform; accounts are the administrators'.
Allowed(role, area) ==
    \/ role = "admin"
    \/ role = "business" /\ area \notin {"accounts", "annotation", "publication"}
    \/ role = "annotator" /\ area \in {"self", "catalog", "reading", "annotation", "reviews"}

\* Protect and FindSession: the session exists and its account, as it is now, is active.
Served(s, area) ==
    /\ session[s] \in Users
    /\ account[session[s]].access.status = "active"
    /\ Allowed(account[session[s]].access.role, area)

\* An administrator asks for a change; the request is authorised here, once.
AskChange(c, s, u, to) ==
    /\ caller[c] = IdleCaller
    /\ Served(s, "accounts")
    /\ session[s] # u
    /\ account[u] # NoAccount
    /\ Proceed(c, [at |-> "asking", user |-> u, to |-> to])
    /\ UNCHANGED <<account, session, trail, adminLock>>

\* Mutant of MayLock: changes of different accounts do not wait for each other.
MayLock_row(u) == ~RowHeld(u)

\* The transaction holds the lock of all changes, and then the row of its account.
MayLock(u) == adminLock = Nobody /\ ~RowHeld(u)

\* Mutant of Removable: the count is taken for the administrators that would remain.
Removable_other(u, to) == u \in ActiveAdmins => Cardinality(ActiveAdmins) >= 1

\* The last active administrator keeps the role.
Removable(u, to) ==
    u \in ActiveAdmins /\ to # ActiveAdmin => Cardinality(ActiveAdmins) > 1

LockChange(c) ==
    LET u == caller[c].user IN
    /\ caller[c].at = "asking"
    /\ MayLock(u)
    /\ IF Removable(u, caller[c].to)
       THEN /\ adminLock' = c
            /\ Proceed(c, [at |-> "changing", user |-> u, from |-> account[u].access, to |-> caller[c].to])
       ELSE Proceed(c, IdleCaller) /\ UNCHANGED adminLock
    /\ UNCHANGED <<account, session, trail>>

Recorded(u, from, to) == trail' = [trail EXCEPT ![u] = Append(@, [from |-> from, to |-> to])]
SessionsEnd(u) == session' = [s \in Sessions |-> IF session[s] = u THEN "deleted" ELSE session[s]]

CommitChange(c) ==
    LET u == caller[c].user IN
    /\ caller[c].at = "changing"
    /\ Len(trail[u]) < MaxChanges
    /\ account' = [account EXCEPT ![u].access = caller[c].to]
    /\ SessionsEnd(u)
    /\ Recorded(u, caller[c].from, caller[c].to)
    /\ Proceed(c, IdleCaller)
    /\ adminLock' = Nobody

\* The process dies or the transaction is rolled back.
CallerEnds(c) ==
    /\ caller[c] # IdleCaller
    /\ Proceed(c, IdleCaller)
    /\ adminLock' = IF adminLock = c THEN Nobody ELSE adminLock
    /\ UNCHANGED <<account, session, trail>>

\* The command of the operator: it makes or restores an administrator, and takes the row
\* lock but not the advisory one.  Its event does not say what the access was before.
BootstrapAdmin(u) ==
    /\ ~RowHeld(u)
    /\ Len(trail[u]) < MaxChanges
    /\ account' = [account EXCEPT ![u] = [access |-> ActiveAdmin, failures |-> 0, lock |-> "open"]]
    /\ SessionsEnd(u)
    /\ Recorded(u, Unrecorded, ActiveAdmin)
    /\ UNCHANGED <<caller, adminLock>>

AccountStep ==
    \/ \E u \in Users : Register(u) \/ LockLapses(u) \/ BootstrapAdmin(u)
    \/ \E c \in Callers :
         \/ RecordFailedLogin(c) \/ ClearFailedLogins(c) \/ LockChange(c) \/ CommitChange(c) \/ CallerEnds(c)
         \/ \E u \in Users : BeginLogin(c, u)
         \/ \E s \in Sessions : CreateSession(c, s)
         \/ \E s \in Sessions, u \in Users, to \in Targets : AskChange(c, s, u, to)
    \/ \E s \in Sessions : DeleteSession(s)

-----------------------------------------------------------------------------
\* Somebody who can change access remains.
AdminsRemain == ActiveAdmins # {}

\* The events of an account, read in order, tell how it came by the access it has.
AccessAudited ==
    \A u \in Users : trail[u] # <<>> =>
        /\ trail[u][Len(trail[u])].to = account[u].access
        /\ \A n \in 2..Len(trail[u]) : trail[u][n].from \in {Unrecorded, trail[u][n - 1].to}

LockoutCounted ==
    \A u \in Users : account[u].lock \in {"locked", "lapsed"} <=> account[u].failures >= FailureLimit

\* However administrators change each other's access at the same time, one that can act
\* remains and the events explain every account; and an account is locked exactly when its
\* failed logins, counted by logins that overlap, have reached the limit (UpdateUser,
\* RecordFailedLogin).
AccountsSound == AdminsRemain /\ AccessAudited /\ LockoutCounted
=============================================================================
