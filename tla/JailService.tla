------------------------------ MODULE JailService ------------------------------
(***************************************************************************)
(* What the operations of a jail promise to their callers, whatever host   *)
(* operations they consist of and whichever of these fail: when a jail may *)
(* come up, go away and be deleted, and what holds when an operation       *)
(* returns.  JailLifecycle implements it.                                  *)
(***************************************************************************)
CONSTANTS
  Objects,    \* the callers
  Exclusive   \* callers run one operation at a time

VARIABLES
  present,    \* the jail is stored
  running,    \* the jail runs
  caller      \* what a caller is waiting for, or how its last call ended

serviceVars == <<present, running, caller>>

Outcomes == {"idle", "ok", "raised", "reverted"}
Requests == {"start", "command", "stop", "restart", "destroy"}

ServiceTypeOK ==
  /\ present \in BOOLEAN
  /\ running \in BOOLEAN
  /\ caller \in [Objects -> Outcomes \union Requests]

ServiceInit ==
  /\ present \in BOOLEAN
  /\ running = FALSE
  /\ caller = [o \in Objects |-> "idle"]

Waiting(o) == caller[o] \in Requests
Now(o, what) == caller' = [caller EXCEPT ![o] = what]

Request(o, api) ==
  /\ ~Waiting(o)
  /\ Exclusive => \A p \in Objects : ~Waiting(p)
  /\ Now(o, api)
  /\ UNCHANGED <<present, running>>

\* A new object, or a call that is refused at once.
Refuse(o) ==
  /\ ~Waiting(o)
  /\ \E outcome \in {"idle", "raised"} : Now(o, outcome)
  /\ UNCHANGED <<present, running>>

\* A creation that fails may have stored the jail.
CreateJail(o) ==
  /\ ~Waiting(o)
  /\ \/ ~present /\ Now(o, "ok")
     \/ Now(o, "raised")
  /\ present' = TRUE
  /\ UNCHANGED running

\* Only a stored jail comes up that does not run, for who wants it to run.
Launch(o) ==
  /\ caller[o] \in {"start", "command", "restart"}
  /\ present /\ ~running
  /\ running' = TRUE
  /\ UNCHANGED <<present, caller>>

\* A jail goes away in the course of a call, never by itself.
Remove(o) ==
  /\ Waiting(o)
  /\ running /\ running' = FALSE
  /\ UNCHANGED <<present, caller>>

\* Only destroy() deletes the jail, and never one that runs.
Delete(o) ==
  /\ caller[o] = "destroy"
  /\ present /\ ~running
  /\ present' = FALSE
  /\ Now(o, "ok")
  /\ UNCHANGED running

Wanted(api) == IF api \in {"start", "restart"} THEN running ELSE ~running

\* A call succeeds with what it was made for.
Succeed(o) ==
  /\ caller[o] \in Requests \ {"destroy"}
  /\ Exclusive => Wanted(caller[o])
  /\ Now(o, "ok")
  /\ UNCHANGED <<present, running>>

\* A call fails, with the jail left as it is or its start undone.
Fail(o) ==
  /\ Waiting(o)
  /\ \/ Now(o, "raised")
     \/ Now(o, "reverted") /\ (Exclusive => ~running)
  /\ UNCHANGED <<present, running>>

ServiceNext ==
  \E o \in Objects :
    \/ \E api \in Requests : Request(o, api)
    \/ Refuse(o) \/ CreateJail(o) \/ Launch(o) \/ Remove(o) \/ Delete(o)
    \/ Succeed(o) \/ Fail(o)

ServiceSpec == ServiceInit /\ [][ServiceNext]_serviceVars
==============================================================================
