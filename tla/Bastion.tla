------------------------------- MODULE Bastion -------------------------------
(***************************************************************************)
(* The SSH bastion that people log in to nodes through: deploy.sh, which   *)
(* creates it step by step and may be run any number of times, and         *)
(* login_node.sh, which runs deploy.sh when there is no bastion.           *)
(*                                                                         *)
(* Several people run the scripts against one cluster at the same time.    *)
(* Any call may fail, a run may be killed, the load balancer and the name  *)
(* service take their time, and somebody may delete the namespace.         *)
(***************************************************************************)
EXTENDS Naturals

CONSTANTS
  People,   \* those who run the scripts, one run at a time each
  Retries,  \* turns of each of the two wait loops; 121 in the script (bound)
  Limits    \* how often each uncontrolled event happens at most (bound)

Objects == {"namespace", "clusterrole", "clusterrolebinding", "service",
            "serviceaccount", "role", "rolebinding", "deployment"}
ClusterScoped == {"namespace", "clusterrole", "clusterrolebinding"}

Budgets == {"fault", "kill", "delete"}

\* Key files are those of the run that is on, or left by one that was killed.
Files == {"run", "killed"}

ASSUME RetriesAssumption == Retries \in Nat \ {0}
ASSUME LimitsAssumption == Limits \in [Budgets -> Nat]

VARIABLES
  objects,  \* API server: the objects that exist, without the secret
  keys,     \* API server: the host keys in the secret, 0 if there is no secret
  made,     \* host keys made so far, to tell them apart
  address,  \* the service's address: "", "hostname" or "ip"
  resolves, \* the hostname is in DNS
  pc,       \* of each run: what it does next
  login,    \* of each run: it was started by login_node.sh
  temp,     \* of each person: whose key files are in the temporary directory
  absent,   \* of each run: the object it applies was not there when it looked
  turns,    \* of each run: turns of the current wait loop that are left
  host,     \* of each run: the address it has found
  budget    \* what is left of Limits

server == <<objects, keys, made, address, resolves>>
runs == <<pc, login, temp, absent, turns, host>>
vars == <<server, runs, budget>>

Spend(b) == budget[b] > 0 /\ budget' = [budget EXCEPT ![b] = @ - 1]

Init ==
  /\ objects = {} /\ keys = 0 /\ made = 0
  /\ address = "" /\ resolves = FALSE
  /\ pc = [p \in People |-> "idle"]
  /\ login = [p \in People |-> FALSE]
  /\ temp = [p \in People |-> {}]
  /\ absent = [p \in People |-> FALSE]
  /\ turns = [p \in People |-> 0]
  /\ host = [p \in People |-> ""]
  /\ budget = Limits

-----------------------------------------------------------------------------
(* The scripts.                                                             *)

\* The order of the calls of deploy.sh.
After == [namespace |-> "clusterrole", clusterrole |-> "clusterrolebinding",
          clusterrolebinding |-> "service", service |-> "keys",
          serviceaccount |-> "role", role |-> "rolebinding",
          rolebinding |-> "deployment", deployment |-> "wait"]

Goto(p, l) == pc' = [pc EXCEPT ![p] = l]

\* Mutant: no trap.
ExitUntrapped(p) ==
  /\ Goto(p, IF login[p] THEN "ssh" ELSE "idle")
  /\ absent' = [absent EXCEPT ![p] = FALSE]
  /\ turns' = [turns EXCEPT ![p] = 0]
  /\ host' = [host EXCEPT ![p] = ""]
  /\ UNCHANGED <<temp, login>>

\* The script ends: the trap removes the key files of this run, and login_node.sh
\* goes on to ssh whatever the exit status is.
Exit(p) ==
  /\ Goto(p, IF login[p] THEN "ssh" ELSE "idle")
  /\ temp' = [temp EXCEPT ![p] = @ \ {"run"}]
  /\ absent' = [absent EXCEPT ![p] = FALSE]
  /\ turns' = [turns EXCEPT ![p] = 0]
  /\ host' = [host EXCEPT ![p] = ""]
  /\ UNCHANGED login

\* Any step of deploy.sh that is not in a condition ends it when it fails
\* (set -e), also when the call was applied all the same.
Fails(p) == Spend("fault") /\ Exit(p)

Deploy(p) ==
  /\ pc[p] = "idle"
  /\ Goto(p, "namespace") /\ login' = [login EXCEPT ![p] = FALSE]
  /\ UNCHANGED <<server, temp, absent, turns, host, budget>>

\* oc project fails where there is no namespace, or for another reason.
Login(p) ==
  /\ pc[p] = "idle" /\ login' = [login EXCEPT ![p] = TRUE]
  /\ \/ /\ Goto(p, IF "namespace" \in objects THEN "ssh" ELSE "namespace")
        /\ UNCHANGED budget
     \/ Goto(p, "namespace") /\ Spend("fault")
  /\ UNCHANGED <<server, temp, absent, turns, host>>

\* After a call that worked the script goes on to the next one.
GoOn(p, o) ==
  /\ Goto(p, After[o])
  /\ absent' = [absent EXCEPT ![p] = FALSE]
  /\ turns' = [turns EXCEPT ![p] = IF o = "deployment" THEN Retries ELSE 0]
  /\ UNCHANGED <<login, temp, host>>

\* oc apply looks for object o first.  What is there is as it should be.
Apply(p, o) ==
  /\ pc[p] = o /\ ~absent[p]
  /\ \/ o \in objects /\ GoOn(p, o) /\ UNCHANGED budget
     \/ /\ o \notin objects /\ absent' = [absent EXCEPT ![p] = TRUE]
        /\ UNCHANGED <<pc, login, temp, turns, host, budget>>
     \/ Fails(p)
  /\ UNCHANGED server

\* Mutant: no set -e.
CreateUnchecked(p, o) ==
  /\ pc[p] = o /\ absent[p] /\ GoOn(p, o)
  /\ \/ objects' = objects \cup {o} /\ UNCHANGED budget
     \/ UNCHANGED objects /\ Spend("fault")
  /\ UNCHANGED <<keys, made, address, resolves>>

\* What was not there it creates, and fails if another run has done so meanwhile
\* or the namespace is gone.
Create(p, o) ==
  LET possible == o \notin objects /\ (o \in ClusterScoped \/ "namespace" \in objects)
      created == objects' = objects \cup {o}
  IN /\ pc[p] = o /\ absent[p]
     /\ \/ possible /\ created /\ GoOn(p, o) /\ UNCHANGED budget
        \/ ~possible /\ Exit(p) /\ UNCHANGED <<objects, budget>>
        \/ Fails(p) /\ (UNCHANGED objects \/ (possible /\ created))
     /\ UNCHANGED <<keys, made, address, resolves>>

\* Mutant: host keys are made in every run.
AlwaysMake(p) ==
  /\ pc[p] = "keys" /\ Goto(p, "make")
  /\ UNCHANGED <<server, login, temp, absent, turns, host, budget>>

\* Whatever makes oc get secret fail, new host keys are tried.
GetKeys(p) ==
  /\ pc[p] = "keys"
  /\ \/ Goto(p, IF keys = 0 THEN "make" ELSE "serviceaccount") /\ UNCHANGED budget
     \/ Goto(p, "make") /\ Spend("fault")
  /\ UNCHANGED <<server, login, temp, absent, turns, host>>

\* ssh-keygen writes the three keys; any of them may fail.
MakeKeys(p) ==
  /\ pc[p] = "make"
  /\ \/ /\ temp' = [temp EXCEPT ![p] = @ \cup {"run"}] /\ Goto(p, "create")
        /\ UNCHANGED <<login, absent, turns, host, budget>>
     \/ Fails(p)
  /\ UNCHANGED server

\* Mutant: oc apply in place of oc create.
ApplySecret(p) ==
  /\ pc[p] = "create" /\ "namespace" \in objects
  /\ made' = made + 1 /\ keys' = made + 1
  /\ Goto(p, "serviceaccount")
  /\ UNCHANGED <<objects, address, resolves, login, temp, absent, turns, host, budget>>

\* oc create secret fails if there is one.
CreateSecret(p) ==
  LET possible == keys = 0 /\ "namespace" \in objects
      created == made' = made + 1 /\ keys' = made + 1
  IN /\ pc[p] = "create"
     /\ \/ /\ possible /\ created /\ Goto(p, "serviceaccount")
           /\ UNCHANGED <<login, temp, absent, turns, host, budget>>
        \/ ~possible /\ Exit(p) /\ UNCHANGED <<keys, made, budget>>
        \/ Fails(p) /\ (UNCHANGED <<keys, made>> \/ (possible /\ created))
     /\ UNCHANGED <<objects, address, resolves>>

\* Mutant: the wait loop does not count.
WaitUncounted(p) ==
  /\ pc[p] = "wait"
  /\ host' = [host EXCEPT ![p] = address]
  /\ IF address = "" THEN UNCHANGED <<pc, turns>>
     ELSE /\ Goto(p, IF address = "hostname" THEN "dns" ELSE "announce")
          /\ turns' = [turns EXCEPT ![p] = Retries]
  /\ UNCHANGED <<server, login, temp, absent, budget>>

\* One turn of the first loop looks for the hostname and then for the ip; a read
\* that fails is taken for an empty one.  After the last turn the script goes on.
Wait(p) ==
  /\ pc[p] = "wait"
  /\ \/ host' = [host EXCEPT ![p] = address] /\ UNCHANGED budget
     \/ UNCHANGED host /\ Spend("fault")
  /\ \/ /\ host'[p] = "" /\ turns[p] > 1
        /\ turns' = [turns EXCEPT ![p] = @ - 1] /\ UNCHANGED pc
     \/ /\ host'[p] # "" \/ turns[p] = 1
        /\ Goto(p, IF host'[p] = "hostname" THEN "dns" ELSE "announce")
        /\ turns' = [turns EXCEPT ![p] = Retries]
  /\ UNCHANGED <<server, login, temp, absent>>

\* One turn of the second loop.
Lookup(p) ==
  /\ pc[p] = "dns"
  /\ IF resolves \/ turns[p] = 1 THEN Goto(p, "announce") /\ UNCHANGED turns
     ELSE turns' = [turns EXCEPT ![p] = @ - 1] /\ UNCHANGED pc
  /\ UNCHANGED <<server, login, temp, absent, host, budget>>

\* The address is printed, empty or not, and the exit status is 0.
Announce(p) ==
  /\ pc[p] = "announce" /\ Exit(p)
  /\ UNCHANGED <<server, budget>>

\* login_node.sh prints the hostname and runs ssh, bastion or not.
Ssh(p) ==
  /\ pc[p] = "ssh"
  /\ Goto(p, "idle") /\ login' = [login EXCEPT ![p] = FALSE]
  /\ UNCHANGED <<server, temp, absent, turns, host, budget>>

Step(p) ==
  \/ \E o \in Objects : Apply(p, o) \/ Create(p, o)
  \/ GetKeys(p) \/ MakeKeys(p) \/ CreateSecret(p)
  \/ Wait(p) \/ Lookup(p) \/ Announce(p) \/ Ssh(p)

-----------------------------------------------------------------------------
(* Everything around the scripts.                                           *)

\* Killed, a run leaves its key files behind.
Kill(p) ==
  /\ pc[p] # "idle" /\ Spend("kill")
  /\ Goto(p, "idle") /\ login' = [login EXCEPT ![p] = FALSE]
  /\ temp' = [temp EXCEPT ![p] = IF "run" \in @ THEN {"killed"} ELSE @]
  /\ absent' = [absent EXCEPT ![p] = FALSE]
  /\ turns' = [turns EXCEPT ![p] = 0] /\ host' = [host EXCEPT ![p] = ""]
  /\ UNCHANGED server

\* The cloud gives the service an address, a hostname or an ip.
AssignAddress ==
  /\ "service" \in objects /\ address = ""
  /\ address' \in {"hostname", "ip"}
  /\ UNCHANGED <<objects, keys, made, resolves, runs, budget>>

PublishName ==
  /\ address = "hostname" /\ ~resolves /\ resolves' = TRUE
  /\ UNCHANGED <<objects, keys, made, address, runs, budget>>

DeleteNamespace ==
  /\ "namespace" \in objects /\ Spend("delete")
  /\ objects' = objects \cap {"clusterrole", "clusterrolebinding"}
  /\ keys' = 0 /\ address' = "" /\ resolves' = FALSE
  /\ UNCHANGED <<made, runs>>

Next ==
  \/ \E p \in People : Deploy(p) \/ Login(p) \/ Step(p) \/ Kill(p)
  \/ AssignAddress \/ PublishName \/ DeleteNamespace

\* A script that runs goes on; nobody has to start one, and the cloud does not
\* have to give an address.
Fairness == \A p \in People : WF_vars(Step(p))

Spec == Init /\ [][Next]_vars

FairSpec == Spec /\ Fairness

-----------------------------------------------------------------------------
(* Properties.                                                              *)

Labels == Objects \cup {"idle", "keys", "make", "create", "wait", "dns", "announce", "ssh"}

\* Every variable has its type; a run that has ended by itself has left no key
\* files, so that those without a run are of runs that were killed.
TypeOK ==
  /\ objects \subseteq Objects
  /\ keys \in 0..made /\ made \in Nat
  /\ address \in {"", "hostname", "ip"} /\ resolves \in BOOLEAN
  /\ pc \in [People -> Labels]
  /\ login \in [People -> BOOLEAN]
  /\ temp \in [People -> SUBSET Files]
  /\ absent \in [People -> BOOLEAN]
  /\ turns \in [People -> 0..Retries]
  /\ host \in [People -> {"", "hostname", "ip"}]
  /\ budget \in [Budgets -> Nat]
  /\ \A p \in People :
       /\ pc[p] = "idle" => "run" \notin temp[p]
       /\ "killed" \in temp[p] => budget["kill"] < Limits["kill"]

\* People know the bastion by its host keys.  They last as long as the namespace,
\* however many runs follow, meet or fail to read them (lines 51 and 69).
HostKeysStable == [][keys # 0 /\ "namespace" \in objects' => keys' = keys]_vars

Complete == objects = Objects /\ keys # 0

\* The deployment, and an exit status of 0, come only when everything the pods
\* need is there, unless somebody deletes the namespace (line 3).
DeployedWhenReady ==
  budget["delete"] = Limits["delete"] /\
  ("deployment" \in objects \/ \E p \in People : pc[p] = "announce") => Complete

\* Whoever runs deploy.sh again and again gets a complete bastion, whatever the
\* runs before, or those of others, left half done.
RerunsComplete ==
  \A p \in People : []<>(pc[p] = "namespace") => <>[]Complete

\* No run waits for ever for an address that does not come or resolve.
RunsEnd == \A p \in People : []<>(pc[p] = "idle")
=============================================================================
