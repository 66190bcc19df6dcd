------------------------------- MODULE Sandbox -------------------------------
(***************************************************************************)
(* What RestartingCodeLauncherProvider promises the threads that serve     *)
(* requests, containers and Docker calls left out: getCodeLauncher waits   *)
(* for a launcher of the language or refuses at once, a request that has   *)
(* one ends with a fresh one in its place, and launchers are lost only     *)
(* after a Docker call has failed.                                         *)
(***************************************************************************)
EXTENDS Integers

CONSTANTS
    Languages,
    Requests,
    LanguageOf,     \* the language of each request
    NoSources,      \* requests answered without a launcher
    MaxFailures     \* bound on failing Docker calls

VARIABLES
    open,       \* start-up is over
    stock,      \* the number of free launchers of each language
    offered,    \* the languages with a list of launchers
    user,       \* each request: "out", "wants" or "has" a launcher, "over"
    failures    \* Docker calls that have failed

sandboxVars == <<open, stock, offered, user, failures>>

SandboxTypeOK ==
    /\ open \in BOOLEAN
    /\ stock \in [Languages -> Nat]
    /\ offered \subseteq Languages
    /\ user \in [Requests -> {"out", "wants", "has", "over"}]
    /\ failures \in Nat

SandboxInit ==
    /\ open = FALSE
    /\ stock = [l \in Languages |-> 0]
    /\ offered = {}
    /\ user = [r \in Requests |-> "out"]
    /\ failures = 0

Becomes(r, from, to) ==
    /\ user[r] = from
    /\ user' = [user EXCEPT ![r] = to]

\* Start-up: some launchers have been created for an entry of Config.
Supply(l) ==
    /\ ~open
    /\ stock'[l] \in Nat
    /\ stock'[l] > stock[l]
    /\ stock' = [stock EXCEPT ![l] = stock'[l]]
    /\ offered' = offered \cup {l}
    /\ UNCHANGED <<open, user, failures>>

Open ==
    /\ ~open
    /\ open' = TRUE
    /\ UNCHANGED <<stock, offered, user, failures>>

\* A thread calls the service for a request.
Ask(r) ==
    /\ open
    /\ Becomes(r, "out", "wants")
    /\ UNCHANGED <<open, stock, offered, failures>>

\* The service answers without a launcher.
Refuse(r) ==
    /\ r \in NoSources \/ LanguageOf[r] \notin offered
    /\ Becomes(r, "wants", "over")
    /\ UNCHANGED <<open, stock, offered, failures>>

Take(r) ==
    /\ r \notin NoSources
    /\ LanguageOf[r] \in offered
    /\ stock[LanguageOf[r]] > 0
    /\ Becomes(r, "wants", "has")
    /\ stock' = [stock EXCEPT ![LanguageOf[r]] = @ - 1]
    /\ UNCHANGED <<open, offered, failures>>

\* The wrapper dies: a replacement is free before the service returns.
Give(r) ==
    /\ Becomes(r, "has", "over")
    /\ stock' = [stock EXCEPT ![LanguageOf[r]] = @ + 1]
    /\ UNCHANGED <<open, offered, failures>>

\* There is no replacement, because a call failed just now or has failed before.
Lose(r) ==
    /\ Becomes(r, "has", "over")
    /\ failures' \in failures..MaxFailures
    /\ failures' \in 1..(failures + 1)
    /\ UNCHANGED <<open, stock, offered>>

\* A call fails and costs no launcher, or not yet.
Fail ==
    /\ failures < MaxFailures
    /\ failures' = failures + 1
    /\ UNCHANGED <<open, stock, offered, user>>

\* The process dies; what it had not answered is over, and start-up begins again.
Restart ==
    /\ open' = FALSE
    /\ stock' = [l \in Languages |-> 0]
    /\ offered' = {}
    /\ \E dropped \in SUBSET {r \in Requests : user[r] = "out"} :
         user' = [r \in Requests |->
                    IF user[r] = "out" /\ r \notin dropped THEN "out" ELSE "over"]
    /\ UNCHANGED failures

SandboxNext ==
    \/ \E l \in Languages : Supply(l)
    \/ Open
    \/ \E r \in Requests : Ask(r) \/ Refuse(r) \/ Take(r) \/ Give(r) \/ Lose(r)
    \/ Fail
    \/ Restart

SandboxSpec == SandboxInit /\ [][SandboxNext]_sandboxVars

\* While there are launchers of a language, some request waiting for one gets it;
\* nobody else waits, and nobody keeps a launcher.
SandboxFairness ==
    /\ \A l \in Languages :
         WF_sandboxVars(\E r \in Requests : LanguageOf[r] = l /\ Take(r))
    /\ \A r \in Requests :
         /\ WF_sandboxVars(Refuse(r))
         /\ WF_sandboxVars(Give(r) \/ Lose(r))

FairSandboxSpec == SandboxSpec /\ SandboxFairness
=============================================================================
