---------------------------- MODULE BastionProofs ----------------------------
(***************************************************************************)
(* Proofs about Bastion, for any number of people, any number of turns of  *)
(* the wait loops and any bounds.                                          *)
(***************************************************************************)
EXTENDS Bastion, TLAPS

\* The calls between the making of the key files and the end of the script.
WithFiles == {"create", "serviceaccount", "role", "rolebinding", "deployment",
              "wait", "dns", "announce"}

\* A run's own key files are there in between only.
OwnFiles == \A p \in People : "run" \in temp[p] => pc[p] \in WithFiles

\* Those of killed runs mean that a run was killed.
FilesExplained ==
  /\ budget["kill"] <= Limits["kill"]
  /\ \A p \in People : "killed" \in temp[p] => budget["kill"] < Limits["kill"]

\* Who looks the name up has turns left.
TurnsLeft == \A p \in People : pc[p] = "dns" => turns[p] # 0

-----------------------------------------------------------------------------
(* What a step does to the runs and to the budgets.                         *)

\* Something uncontrolled happens once more, and nothing else does.
LEMMA SpendStep ==
  ASSUME budget \in [Budgets -> Nat], NEW b \in Budgets, Spend(b)
  PROVE  /\ budget' \in [Budgets -> Nat]
         /\ budget'[b] < budget[b]
         /\ \A c \in Budgets : c # b => budget'[c] = budget[c]
BY DEF Spend

\* A run moves to another label, its local state with it, and no other run does.
Moves(p) ==
  /\ pc' \in [People -> Labels] /\ login' \in [People -> BOOLEAN]
  /\ temp' \in [People -> SUBSET Files] /\ absent' \in [People -> BOOLEAN]
  /\ turns' \in [People -> 0..Retries] /\ host' \in [People -> {"", "hostname", "ip"}]
  /\ \A q \in People \ {p} : pc'[q] = pc[q] /\ temp'[q] = temp[q] /\ turns'[q] = turns[q]

\* What a run does to itself: one conjunct of TypeOK for each variable.
LEMMA RunTypes ==
  ASSUME TypeOK
  PROVE  /\ pc \in [People -> Labels] /\ login \in [People -> BOOLEAN]
         /\ temp \in [People -> SUBSET Files] /\ absent \in [People -> BOOLEAN]
         /\ turns \in [People -> 0..Retries] /\ host \in [People -> {"", "hostname", "ip"}]
         /\ budget \in [Budgets -> Nat]
         /\ 0 \in 0..Retries /\ Retries \in 1..Retries
<1>1. 0 \in 0..Retries /\ Retries \in 1..Retries
  BY RetriesAssumption
<1>. QED
  BY <1>1 DEF TypeOK

\* The turns that are left are a number, and so is one turn less.
LEMMA TurnsType ==
  ASSUME TypeOK, NEW p \in People
  PROVE  /\ turns[p] \in Nat /\ turns[p] <= Retries
         /\ turns[p] # 0 => turns[p] - 1 \in 0..Retries
<1>1. turns \in [People -> 0..Retries]
  BY DEF TypeOK
<1>2. turns[p] \in 0..Retries
  BY <1>1
<1>. QED
  BY <1>2, RetriesAssumption

\* So are none and all of them.
LEMMA RetriesType == 0 \in 0..Retries /\ Retries \in 0..Retries /\ Retries # 0
BY RetriesAssumption

\* A wait is set to a number of turns, for one run.
LEMMA SetTurns ==
  ASSUME TypeOK, NEW p \in People, NEW n \in 0..Retries, turns' = [turns EXCEPT ![p] = n]
  PROVE  /\ turns' \in [People -> 0..Retries] /\ turns'[p] = n
         /\ \A q \in People \ {p} : turns'[q] = turns[q]
BY DEF TypeOK

\* What comes after an object.
LEMMA AfterLabel ==
  ASSUME NEW o \in Objects
  PROVE  /\ After[o] \in Labels \ {"idle", "dns", "ssh", "create", "make"}
         /\ o \in WithFiles => After[o] \in WithFiles
         /\ o \notin WithFiles => After[o] \notin WithFiles
BY DEF Objects, Labels, After, WithFiles

\* A run goes to a label, and no other run does.
LEMMA GotoStep ==
  ASSUME TypeOK, NEW p \in People, NEW l \in Labels, Goto(p, l)
  PROVE  /\ pc' \in [People -> Labels] /\ pc'[p] = l
         /\ \A q \in People \ {p} : pc'[q] = pc[q]
BY DEF TypeOK, Goto

\* Key files come and go with one run; what others have stays.
LEMMA SetFiles ==
  ASSUME TypeOK, NEW p \in People, NEW F \in SUBSET Files, temp' = [temp EXCEPT ![p] = F]
  PROVE  /\ temp' \in [People -> SUBSET Files] /\ temp'[p] = F
         /\ \A q \in People \ {p} : temp'[q] = temp[q]
BY RunTypes

\* The end of a run is a move, and its files are gone.
LEMMA ExitMoves ==
  ASSUME TypeOK, NEW p \in People, Exit(p)
  PROVE  /\ Moves(p) /\ pc'[p] \in {"ssh", "idle"}
         /\ "run" \notin temp'[p] /\ temp'[p] \subseteq temp[p]
<1>1. temp[p] \ {"run"} \in SUBSET Files
  BY RunTypes
<1>2. temp' = [temp EXCEPT ![p] = temp[p] \ {"run"}]
  BY DEF Exit
<1>3. /\ temp' \in [People -> SUBSET Files] /\ temp'[p] = temp[p] \ {"run"}
      /\ \A q \in People \ {p} : temp'[q] = temp[q]
  BY <1>1, <1>2, SetFiles
<1>4. /\ turns' \in [People -> 0..Retries]
      /\ \A q \in People \ {p} : turns'[q] = turns[q]
  BY SetTurns, RetriesType DEF Exit
<1>5. PICK l \in {"ssh", "idle"} : Goto(p, l)
  BY DEF Exit
<1>6. /\ pc' \in [People -> Labels] /\ pc'[p] = l
      /\ \A q \in People \ {p} : pc'[q] = pc[q]
  BY <1>5, GotoStep DEF Labels
<1>7. /\ login' \in [People -> BOOLEAN] /\ absent' \in [People -> BOOLEAN]
      /\ host' \in [People -> {"", "hostname", "ip"}]
  BY RunTypes DEF Exit
<1>. QED
  BY <1>3, <1>4, <1>6, <1>7, Zenon DEF Moves

\* So is going on, and the files stay.
LEMMA GoOnMoves ==
  ASSUME TypeOK, NEW p \in People, NEW o \in Objects, GoOn(p, o)
  PROVE  Moves(p) /\ pc'[p] = After[o] /\ temp' = temp
<1>1. turns' \in [People -> 0..Retries] /\ \A q \in People \ {p} : turns'[q] = turns[q]
  <2>1. CASE turns' = [turns EXCEPT ![p] = Retries]
    BY <2>1, SetTurns, RetriesType
  <2>2. CASE turns' = [turns EXCEPT ![p] = 0]
    BY <2>2, SetTurns, RetriesType
  <2>. QED
    BY <2>1, <2>2 DEF GoOn
<1>2. /\ pc' \in [People -> Labels] /\ pc'[p] = After[o]
      /\ \A q \in People \ {p} : pc'[q] = pc[q]
  BY GotoStep, AfterLabel DEF GoOn
<1>3. /\ login' = login /\ temp' = temp /\ host' = host
      /\ absent' \in [People -> BOOLEAN]
  BY RunTypes DEF GoOn
<1>. QED
  BY <1>1, <1>2, <1>3, RunTypes, Zenon DEF Moves

\* A step of a script moves one run, spends at most a fault, and leaves key files
\* of its own only between their making and the end, and no more of killed runs.
LEMMA ScriptStep ==
  ASSUME TypeOK, OwnFiles, TurnsLeft, NEW p \in People, Deploy(p) \/ Login(p) \/ Step(p)
  PROVE  /\ Moves(p)
         /\ budget' = budget \/ Spend("fault")
         /\ "run" \in temp'[p] => pc'[p] \in WithFiles
         /\ "killed" \in temp'[p] => "killed" \in temp[p]
         /\ pc'[p] = "dns" => turns'[p] # 0
<1> DEFINE Goal == /\ Moves(p)
                   /\ budget' = budget \/ Spend("fault")
                   /\ "run" \in temp'[p] => pc'[p] \in WithFiles
                   /\ "killed" \in temp'[p] => "killed" \in temp[p]
                   /\ pc'[p] = "dns" => turns'[p] # 0
<1>0. CASE Exit(p) /\ (budget' = budget \/ Spend("fault"))
  BY <1>0, ExitMoves
<1>01. "run" \in temp[p] => pc[p] \in WithFiles
  BY DEF OwnFiles
<1>1. CASE Deploy(p)
  <2>1. "namespace" \in Labels /\ "namespace" # "dns" /\ "idle" \notin WithFiles
    BY DEF Labels, Objects, WithFiles
  <2>2. /\ pc' \in [People -> Labels] /\ pc'[p] = "namespace"
        /\ \A q \in People \ {p} : pc'[q] = pc[q]
    BY <1>1, <2>1, GotoStep DEF Deploy
  <2>3. /\ UNCHANGED <<turns, temp, host, absent, budget>> /\ login' \in [People -> BOOLEAN]
        /\ pc[p] = "idle"
    BY <1>1, RunTypes DEF Deploy
  <2>. QED
    BY <1>01, <2>1, <2>2, <2>3, RunTypes DEF Moves
<1>2. CASE Login(p)
  <2>1. PICK l \in {"namespace", "ssh"} : Goto(p, l)
    BY <1>2 DEF Login
  <2>2. l \in Labels /\ l \notin WithFiles /\ l # "dns"
    BY DEF Labels, Objects, WithFiles
  <2>3. pc' \in [People -> Labels] /\ pc'[p] = l /\ \A q \in People \ {p} : pc'[q] = pc[q]
    BY <2>1, <2>2, GotoStep
  <2>4. /\ UNCHANGED <<turns, temp, host, absent>> /\ login' \in [People -> BOOLEAN]
        /\ pc[p] \notin WithFiles /\ (budget' = budget \/ Spend("fault"))
    BY <1>2, RunTypes DEF Login, WithFiles
  <2>. QED
    BY <1>01, <2>2, <2>3, <2>4, RunTypes DEF Moves
<1>31. ASSUME NEW o \in Objects, pc[p] = o, GoOn(p, o), budget' = budget PROVE Goal
  BY <1>01, <1>31, GoOnMoves, AfterLabel
<1>3. ASSUME NEW o \in Objects, Apply(p, o) PROVE Goal
  <2>1. CASE UNCHANGED <<pc, login, temp, turns, host, budget>> /\ absent' \in [People -> BOOLEAN]
    <3>1. pc[p] # "dns"
      BY <1>3 DEF Apply, Objects
    <3>. QED
      BY <1>01, <2>1, <3>1, RunTypes DEF Moves
  <2>2. absent' = [absent EXCEPT ![p] = TRUE] => absent' \in [People -> BOOLEAN]
    BY RunTypes
  <2>. QED
    BY <1>3, <1>0, <1>31, <2>1, <2>2 DEF Apply, Fails
<1>32. ASSUME NEW o \in Objects, Create(p, o) PROVE Goal
  BY <1>32, <1>0, <1>31 DEF Create, Fails
<1>4. CASE GetKeys(p)
  <2>1. PICK l \in {"make", "serviceaccount"} : Goto(p, l)
    BY <1>4 DEF GetKeys
  <2>2. l \in Labels /\ l # "dns"
    BY DEF Labels, Objects
  <2>3. pc' \in [People -> Labels] /\ pc'[p] = l /\ \A q \in People \ {p} : pc'[q] = pc[q]
    BY <2>1, <2>2, GotoStep
  <2>4. /\ UNCHANGED <<login, turns, temp, host, absent>> /\ pc[p] \notin WithFiles
        /\ budget' = budget \/ Spend("fault")
    BY <1>4 DEF GetKeys, WithFiles
  <2>. QED
    BY <1>01, <2>2, <2>3, <2>4, RunTypes DEF Moves
<1>5. CASE MakeKeys(p)
  <2>1. CASE temp' = [temp EXCEPT ![p] = @ \cup {"run"}] /\ Goto(p, "create")
             /\ UNCHANGED <<login, absent, turns, host, budget>>
    <3>0. temp[p] \cup {"run"} \in SUBSET Files
      BY RunTypes DEF Files
    <3>1. /\ temp' \in [People -> SUBSET Files] /\ \A q \in People \ {p} : temp'[q] = temp[q]
          /\ temp'[p] = temp[p] \cup {"run"}
      BY <2>1, <3>0, SetFiles
    <3>2. "create" \in Labels \cap WithFiles /\ "create" # "dns"
      BY DEF Labels, WithFiles
    <3>3. /\ pc' \in [People -> Labels] /\ pc'[p] = "create"
          /\ \A q \in People \ {p} : pc'[q] = pc[q]
      BY <2>1, <3>2, GotoStep
    <3>4. Moves(p)
      BY <2>1, <3>1, <3>3, RunTypes, Zenon DEF Moves
    <3>. QED
      BY <2>1, <3>1, <3>2, <3>3, <3>4, Zenon
  <2>. QED
    BY <1>0, <1>5, <2>1 DEF MakeKeys, Fails
<1>6. CASE CreateSecret(p)
  <2>1. CASE Goto(p, "serviceaccount")
             /\ UNCHANGED <<login, temp, absent, turns, host, budget>>
    <3>1. "serviceaccount" \in Labels \cap WithFiles
      BY DEF Labels, Objects, WithFiles
    <3>. QED
      BY <2>1, <3>1, GotoStep, RunTypes DEF Moves
  <2>. QED
    BY <1>0, <1>6, <2>1 DEF CreateSecret, Fails
<1>7. CASE Wait(p)
  <2>1. host' \in [People -> {"", "hostname", "ip"}] /\ (budget' = budget \/ Spend("fault"))
    BY <1>7, RunTypes DEF Wait, TypeOK
  <2>2. \/ turns' = [turns EXCEPT ![p] = turns[p] - 1] /\ turns[p] > 1 /\ pc' = pc
        \/ /\ Goto(p, "dns") \/ Goto(p, "announce")
           /\ turns' = [turns EXCEPT ![p] = Retries]
    BY <1>7 DEF Wait
  <2>3. /\ turns' \in [People -> 0..Retries]
        /\ \A q \in People \ {p} : turns'[q] = turns[q]
        /\ turns' = [turns EXCEPT ![p] = Retries] => turns'[p] # 0
    <3>1. turns[p] > 1 => turns[p] - 1 \in 0..Retries
      BY TurnsType
    <3>2. CASE turns[p] > 1 /\ turns' = [turns EXCEPT ![p] = turns[p] - 1]
      <4>1. turns' # [turns EXCEPT ![p] = Retries] \/ turns'[p] # 0
        BY <3>1, <3>2, SetTurns, TurnsType
      <4>. QED
        BY <3>1, <3>2, <4>1, SetTurns
    <3>3. CASE turns' = [turns EXCEPT ![p] = Retries]
      BY <3>3, SetTurns, RetriesType
    <3>. QED
      BY <2>2, <3>2, <3>3
  <2>4. /\ pc' \in [People -> Labels] /\ pc'[p] \in {"wait", "dns", "announce"}
        /\ \A q \in People \ {p} : pc'[q] = pc[q]
    <3>1. pc[p] = "wait" /\ {"wait", "dns", "announce"} \subseteq Labels
      BY <1>7 DEF Wait, Labels
    <3>2. CASE pc' = pc
      BY <3>1, <3>2, RunTypes
    <3>3. CASE Goto(p, "dns")
      BY <3>1, <3>3, GotoStep
    <3>4. CASE Goto(p, "announce")
      BY <3>1, <3>4, GotoStep
    <3>. QED
      BY <2>2, <3>2, <3>3, <3>4
  <2>5. pc'[p] = "dns" => turns' = [turns EXCEPT ![p] = Retries]
    BY <1>7, <2>2 DEF Wait
  <2>. QED
    <3>1. /\ pc[p] = "wait" /\ UNCHANGED <<login, temp, absent>>
          /\ {"wait", "dns", "announce"} \subseteq WithFiles
      BY <1>7 DEF Wait, WithFiles
    <3>2. Moves(p)
      BY <2>1, <2>3, <2>4, <3>1, RunTypes, Zenon DEF Moves
    <3>3. pc'[p] \in WithFiles /\ (pc'[p] = "dns" => turns'[p] # 0)
      BY <2>3, <2>4, <2>5, <3>1
    <3>. QED
      BY <2>1, <3>1, <3>2, <3>3
<1>8. CASE Lookup(p)
  <2>1. turns[p] # 0 /\ turns[p] \in Nat /\ turns[p] - 1 \in 0..Retries
    BY <1>8, TurnsType DEF Lookup, TurnsLeft
  <2>2. \/ Goto(p, "announce") /\ turns' = turns
        \/ pc' = pc /\ turns[p] # 1 /\ turns' = [turns EXCEPT ![p] = turns[p] - 1]
    BY <1>8 DEF Lookup
  <2>3. /\ turns' \in [People -> 0..Retries]
        /\ \A q \in People \ {p} : turns'[q] = turns[q]
        /\ pc' = pc => turns'[p] # 0
    <3>1. CASE turns' = turns
      BY <2>1, <3>1, RunTypes
    <3>2. CASE turns[p] # 1 /\ turns' = [turns EXCEPT ![p] = turns[p] - 1]
      <4>1. turns' \in [People -> 0..Retries] /\ turns'[p] = turns[p] - 1
        BY <2>1, <3>2, SetTurns
      <4>2. \A q \in People \ {p} : turns'[q] = turns[q]
        BY <2>1, <3>2, SetTurns
      <4>3. turns[p] - 1 # 0
        BY <2>1, <3>2
      <4>. QED
        BY <4>1, <4>2, <4>3
    <3>. QED
      BY <2>2, <3>1, <3>2
  <2>4. /\ pc' \in [People -> Labels] /\ pc'[p] \in {"dns", "announce"}
        /\ \A q \in People \ {p} : pc'[q] = pc[q]
        /\ pc'[p] = "dns" => pc' = pc
    BY <1>8, <2>2, RunTypes DEF Lookup, Goto, Labels
  <2>. QED
    BY <1>8, <2>3, <2>4, RunTypes DEF Lookup, Moves, WithFiles
<1>9. CASE Announce(p)
  BY <1>0, <1>9 DEF Announce
<1>10. CASE Ssh(p)
  BY <1>01, <1>10, RunTypes DEF Ssh, Goto, Moves, Labels, WithFiles
<1>. QED
  BY <1>1, <1>2, <1>3, <1>32, <1>4, <1>5, <1>6, <1>7, <1>8, <1>9, <1>10 DEF Step

\* It adds to the cluster and takes nothing away: objects only come, and host
\* keys only where there are none.
LEMMA ServerStep ==
  ASSUME TypeOK, NEW p \in People, Deploy(p) \/ Login(p) \/ Step(p)
  PROVE  /\ objects \subseteq objects' /\ objects' \subseteq Objects
         /\ \/ UNCHANGED <<keys, made>>
            \/ keys = 0 /\ keys' = made + 1 /\ made' = made + 1 /\ UNCHANGED objects
         /\ UNCHANGED <<address, resolves>>
<1>0. objects \subseteq Objects
  BY DEF TypeOK
<1>1. CASE Deploy(p) \/ Login(p) \/ GetKeys(p) \/ MakeKeys(p) \/ Wait(p) \/ Lookup(p)
           \/ Announce(p) \/ Ssh(p)
  BY <1>0, <1>1 DEF Deploy, Login, GetKeys, MakeKeys, Wait, Lookup, Announce, Ssh, server
<1>2. ASSUME NEW o \in Objects, Apply(p, o)
      PROVE  /\ objects \subseteq objects' /\ objects' \subseteq Objects
             /\ UNCHANGED <<keys, made, address, resolves>>
  BY <1>0, <1>2 DEF Apply, server
<1>21. ASSUME NEW o \in Objects, Create(p, o)
       PROVE  /\ objects \subseteq objects' /\ objects' \subseteq Objects
              /\ UNCHANGED <<keys, made, address, resolves>>
  BY <1>0, <1>21 DEF Create
<1>3. CASE CreateSecret(p)
  BY <1>0, <1>3 DEF CreateSecret
<1>. QED
  BY <1>1, <1>2, <1>21, <1>3 DEF Step

-----------------------------------------------------------------------------
(* Types.                                                                   *)

\* The invariant.
TypeInv == TypeOK /\ OwnFiles /\ FilesExplained /\ TurnsLeft

\* It holds at first.
LEMMA TypeInit == Init => TypeInv
<1>. SUFFICES ASSUME Init PROVE TypeInv
  OBVIOUS
<1>1. budget = Limits /\ budget \in [Budgets -> Nat]
  BY LimitsAssumption DEF Init
<1>2. budget["kill"] \in Nat
  BY <1>1 DEF Budgets
<1>3. \A p \in People : pc[p] = "idle" /\ temp[p] = {}
  BY DEF Init
<1>4. /\ pc \in [People -> Labels] /\ login \in [People -> BOOLEAN]
      /\ temp \in [People -> SUBSET Files] /\ absent \in [People -> BOOLEAN]
      /\ turns \in [People -> 0..Retries] /\ host \in [People -> {"", "hostname", "ip"}]
  BY RetriesType DEF Init, Labels
<1>5. keys = 0 /\ made = 0 /\ objects = {} /\ address = "" /\ resolves = FALSE
  BY DEF Init
<1>6. keys \in 0..made /\ made \in Nat
  <2>1. keys = 0 /\ made = 0
    BY <1>5
  <2>. QED
    BY <2>1
<1>7. TypeOK
  BY <1>1, <1>3, <1>4, <1>5, <1>6 DEF TypeOK
<1>. QED
  BY <1>1, <1>2, <1>3, <1>7 DEF TypeInv, OwnFiles, FilesExplained, TurnsLeft

\* TypeInv is inductive.
LEMMA TypeStep ==
  ASSUME TypeInv, [Next]_vars
  PROVE  TypeInv'
<1>0. /\ TypeOK /\ OwnFiles /\ FilesExplained /\ TurnsLeft
      /\ budget \in [Budgets -> Nat] /\ "fault" \in Budgets
      /\ "kill" \in Budgets /\ "delete" \in Budgets
  BY DEF TypeInv, TypeOK, Budgets
<1>1. ASSUME NEW p \in People, Deploy(p) \/ Login(p) \/ Step(p) PROVE TypeInv'
  <2>1. Moves(p) /\ (budget' = budget \/ Spend("fault"))
    BY <1>0, <1>1, ScriptStep
  <2>2. budget' \in [Budgets -> Nat] /\ budget'["kill"] = budget["kill"]
    BY <1>0, <2>1, SpendStep
  <2>3. objects' \subseteq Objects /\ address' = address /\ resolves' = resolves
    BY <1>0, <1>1, ServerStep
  <2>4. keys' \in 0..made' /\ made' \in Nat
    <3>1. keys \in 0..made /\ made \in Nat
      BY <1>0 DEF TypeOK
    <3>2. UNCHANGED <<keys, made>> \/ (keys' = made + 1 /\ made' = made + 1)
      BY <1>0, <1>1, ServerStep
    <3>. QED
      BY <3>1, <3>2
  <2>5. OwnFiles' /\ FilesExplained'
    <3>1. /\ "run" \in temp'[p] => pc'[p] \in WithFiles
          /\ "killed" \in temp'[p] => "killed" \in temp[p]
      BY <1>0, <1>1, ScriptStep
    <3>2. OwnFiles'
      BY <1>0, <2>1, <3>1 DEF OwnFiles, Moves
    <3>3. FilesExplained'
      BY <1>0, <2>1, <2>2, <3>1 DEF FilesExplained, Moves
    <3>. QED
      BY <3>2, <3>3
  <2>6. TurnsLeft'
    <3>1. pc'[p] = "dns" => turns'[p] # 0
      BY <1>0, <1>1, ScriptStep
    <3>. QED
      BY <1>0, <2>1, <3>1 DEF TurnsLeft, Moves
  <2>7. \A q \in People : /\ pc'[q] = "idle" => "run" \notin temp'[q]
                          /\ "killed" \in temp'[q] => budget'["kill"] < Limits["kill"]
    BY <2>5 DEF OwnFiles, FilesExplained, WithFiles
  <2>8. address' \in {"", "hostname", "ip"} /\ resolves' \in BOOLEAN
    BY <1>0, <2>3 DEF TypeOK
  <2>9. /\ pc' \in [People -> Labels] /\ login' \in [People -> BOOLEAN]
        /\ temp' \in [People -> SUBSET Files] /\ absent' \in [People -> BOOLEAN]
        /\ turns' \in [People -> 0..Retries] /\ host' \in [People -> {"", "hostname", "ip"}]
    BY <2>1 DEF Moves
  <2>. QED
    BY <2>2, <2>3, <2>4, <2>5, <2>6, <2>7, <2>8, <2>9 DEF TypeInv, TypeOK
<1>2. ASSUME NEW p \in People, Kill(p) PROVE TypeInv'
  <2>1. /\ budget' \in [Budgets -> Nat] /\ budget'["kill"] < Limits["kill"]
        /\ budget'["kill"] <= Limits["kill"]
    <3>1. /\ budget["kill"] \in Nat /\ Limits["kill"] \in Nat
          /\ budget["kill"] <= Limits["kill"] /\ budget'["kill"] < budget["kill"]
          /\ budget' \in [Budgets -> Nat]
      BY <1>0, <1>2, SpendStep, LimitsAssumption DEF Kill, FilesExplained
    <3>2. budget'["kill"] \in Nat
      BY <1>0, <3>1
    <3>. QED
      BY <3>1, <3>2
  <2>2. UNCHANGED server
    BY <1>2 DEF Kill
  <2>3. /\ pc' \in [People -> Labels] /\ login' \in [People -> BOOLEAN]
        /\ absent' \in [People -> BOOLEAN]
        /\ turns' \in [People -> 0..Retries] /\ host' \in [People -> {"", "hostname", "ip"}]
        /\ pc'[p] = "idle" /\ \A q \in People \ {p} : pc'[q] = pc[q] /\ turns'[q] = turns[q]
    BY <1>0, <1>2, RunTypes, RetriesType DEF Kill, Goto, Labels
  <2>4. TurnsLeft'
    BY <1>0, <2>3 DEF TurnsLeft
  <2>5. /\ temp' \in [People -> SUBSET Files] /\ "run" \notin temp'[p]
        /\ \A q \in People \ {p} : temp'[q] = temp[q]
    <3>1. PICK F \in SUBSET Files : "run" \notin F /\ temp' = [temp EXCEPT ![p] = F]
      <4>1. CASE "run" \in temp[p]
        BY <1>2, <4>1 DEF Kill, Files
      <4>2. CASE "run" \notin temp[p]
        BY <1>0, <1>2, <4>2, RunTypes DEF Kill
      <4>. QED
        BY <4>1, <4>2
    <3>. QED
      BY <1>0, <3>1, SetFiles
  <2>6. OwnFiles' /\ \A q \in People : pc'[q] = "idle" => "run" \notin temp'[q]
    BY <1>0, <2>3, <2>5 DEF OwnFiles, WithFiles
  <2>7. FilesExplained'
    BY <2>1 DEF FilesExplained
  <2>. QED
    BY <1>0, <2>1, <2>2, <2>3, <2>4, <2>5, <2>6, <2>7 DEF TypeInv, TypeOK, FilesExplained, server
<1>3. ASSUME AssignAddress \/ PublishName PROVE TypeInv'
  BY <1>0, <1>3
     DEF AssignAddress, PublishName, TypeInv, TypeOK, OwnFiles, FilesExplained, TurnsLeft, runs
<1>4. ASSUME DeleteNamespace PROVE TypeInv'
  <2>1. budget' \in [Budgets -> Nat] /\ budget'["kill"] = budget["kill"]
    BY <1>0, <1>4, SpendStep DEF DeleteNamespace
  <2>2. keys' \in 0..made' /\ made' \in Nat
    <3>1. made \in Nat /\ made' = made /\ keys' = 0
      BY <1>0, <1>4 DEF DeleteNamespace, TypeOK
    <3>2. 0 \in 0..made
      BY <3>1
    <3>. QED
      BY <3>1, <3>2
  <2>. QED
    BY <1>0, <1>4, <2>1, <2>2
       DEF DeleteNamespace, TypeInv, TypeOK, OwnFiles, FilesExplained, TurnsLeft, runs
<1>5. CASE UNCHANGED vars
  BY <1>0, <1>5 DEF TypeInv, TypeOK, OwnFiles, FilesExplained, TurnsLeft, vars, server, runs
<1>. QED
  BY <1>1, <1>2, <1>3, <1>4, <1>5 DEF Next

\* Every variable keeps its type, and key files are left by killed runs only.
THEOREM TypeCorrect == Spec => []TypeOK
<1>1. TypeInv => TypeOK
  BY DEF TypeInv
<1>. QED
  BY <1>1, TypeInit, TypeStep, PTL DEF Spec

-----------------------------------------------------------------------------
(* Host keys.                                                               *)

\* Host keys last as long as the namespace, whoever else makes new ones: a
\* secret is created only where there is none, and nothing replaces it.
THEOREM HostKeysLast == Spec => HostKeysStable
<1> DEFINE Stay == keys # 0 /\ "namespace" \in objects' => keys' = keys
<1>1. ASSUME TypeInv, [Next]_vars PROVE Stay
  <2>1. ASSUME NEW p \in People, Deploy(p) \/ Login(p) \/ Step(p) PROVE Stay
    BY <1>1, <2>1, ServerStep DEF TypeInv
  <2>2. ASSUME NEW p \in People, Kill(p) PROVE Stay
    BY <2>2 DEF Kill, server
  <2>3. CASE AssignAddress \/ PublishName \/ UNCHANGED vars
    BY <2>3 DEF AssignAddress, PublishName, vars, server
  <2>4. CASE DeleteNamespace
    BY <2>4 DEF DeleteNamespace
  <2>. QED
    BY <1>1, <2>1, <2>2, <2>3, <2>4 DEF Next
<1>2. TypeInv /\ [Next]_vars => [Stay]_vars
  BY <1>1
<1>. QED
  BY <1>2, TypeInit, TypeStep, PTL DEF Spec, HostKeysStable

-----------------------------------------------------------------------------
(* The deployment.                                                          *)

\* What has been applied before each call of the script.
Early == {"namespace", "clusterrole", "clusterrolebinding", "service"}
Before ==
  [namespace |-> {}, clusterrole |-> {"namespace"},
   clusterrolebinding |-> {"namespace", "clusterrole"},
   service |-> {"namespace", "clusterrole", "clusterrolebinding"},
   keys |-> Early, make |-> Early, create |-> Early, serviceaccount |-> Early,
   role |-> Early \cup {"serviceaccount"},
   rolebinding |-> Early \cup {"serviceaccount", "role"},
   deployment |-> Objects \ {"deployment"},
   wait |-> Objects, dns |-> Objects, announce |-> Objects]

\* The calls after the host keys.
WithKeys == WithFiles \ {"create"}

\* What a run has passed is there.
InOrder(p) ==
  /\ pc[p] \in DOMAIN Before => Before[pc[p]] \subseteq objects
  /\ pc[p] \in WithKeys => keys # 0

\* As long as nobody deletes the namespace.
ReadyInv ==
  /\ budget["delete"] <= Limits["delete"]
  /\ budget["delete"] = Limits["delete"] =>
       /\ \A p \in People : InOrder(p)
       /\ "deployment" \in objects => Complete

\* Applying an object leads to where it is needed.
LEMMA BeforeAfter ==
  ASSUME NEW o \in Objects
  PROVE  /\ o \in DOMAIN Before /\ After[o] \in DOMAIN Before
         /\ Before[After[o]] \subseteq Before[o] \cup {o}
         /\ After[o] \in WithKeys => o \in WithKeys
         /\ o = "deployment" => Before[o] \cup {o} = Objects
BY DEF Objects, Before, Early, After, WithKeys, WithFiles

\* A script keeps the order: it goes on only after a call that worked.
LEMMA ScriptInOrder ==
  ASSUME TypeInv, NEW p \in People, Deploy(p) \/ Login(p) \/ Step(p),
         InOrder(p), "deployment" \in objects => Complete
  PROVE  InOrder(p)' /\ ("deployment" \in objects => Complete)'
<1> DEFINE Goal == InOrder(p)' /\ ("deployment" \in objects => Complete)'
<1>0. /\ TypeOK /\ pc \in [People -> Labels] /\ keys \in 0..made /\ made \in Nat
  BY DEF TypeInv, TypeOK
<1>1. /\ objects \subseteq objects' /\ objects' \subseteq Objects
      /\ keys # 0 => keys' = keys
  BY <1>0, ServerStep
<1>2. CASE UNCHANGED objects /\ pc'[p] \in {"idle", "ssh", "namespace"}
  BY <1>1, <1>2 DEF InOrder, Complete, Before, WithKeys, WithFiles
<1>3. ASSUME UNCHANGED objects, pc[p] \in DOMAIN Before, pc'[p] \in DOMAIN Before,
             Before[pc'[p]] = Before[pc[p]],
             pc'[p] \in WithKeys => pc[p] \in WithKeys \/ keys' # 0
      PROVE  Goal
  BY <1>1, <1>3 DEF InOrder, Complete
<1>4. CASE Exit(p) /\ UNCHANGED objects
  BY <1>0, <1>2, <1>4, ExitMoves
<1>5. CASE Deploy(p) \/ Login(p) \/ Ssh(p)
  BY <1>0, <1>2, <1>5 DEF Deploy, Login, Ssh, Goto, server
<1>60. ASSUME NEW o \in Objects, pc[p] = o, keys' = keys, objects' = objects \cup {o},
              Exit(p) \/ GoOn(p, o)
       PROVE  Goal
  <2>1. Before[o] \subseteq objects /\ (o \in WithKeys => keys # 0)
    BY <1>60, BeforeAfter DEF InOrder
  <2>2. "deployment" \in objects' => objects' = Objects /\ keys' # 0
    <3>1. CASE o = "deployment"
      BY <1>1, <1>60, <2>1, <3>1, BeforeAfter DEF WithKeys, WithFiles
    <3>2. CASE o # "deployment"
      BY <1>1, <1>60, <3>2 DEF Complete
    <3>. QED
      BY <3>1, <3>2
  <2>3. CASE Exit(p)
    BY <1>0, <2>2, <2>3, ExitMoves DEF InOrder, Complete, Before, WithKeys, WithFiles
  <2>4. CASE GoOn(p, o)
    <3>1. pc'[p] = After[o]
      BY <1>0, <2>4, GoOnMoves
    <3>. QED
      BY <1>60, <2>1, <2>2, <3>1, BeforeAfter DEF InOrder, Complete
  <2>. QED
    BY <1>60, <2>3, <2>4
<1>6. ASSUME NEW o \in Objects, Apply(p, o) PROVE Goal
  <2>0. pc[p] = o /\ keys' = keys /\ objects' = objects
    BY <1>6 DEF Apply, server
  <2>1. CASE o \in objects /\ GoOn(p, o)
    <3>1. objects' = objects \cup {o}
      BY <2>0, <2>1
    <3>. QED
      BY <1>60, <2>0, <2>1, <3>1
  <2>2. CASE pc' = pc
    BY <2>0, <2>2 DEF InOrder, Complete
  <2>. QED
    BY <1>4, <1>6, <2>0, <2>1, <2>2 DEF Apply, Fails
<1>61. ASSUME NEW o \in Objects, Create(p, o) PROVE Goal
  <2>1. CASE objects' = objects \cup {o}
    BY <1>60, <1>61, <2>1 DEF Create, Fails
  <2>. QED
    BY <1>4, <1>61, <2>1 DEF Create, Fails
<1>7. CASE GetKeys(p)
  BY <1>0, <1>3, <1>7 DEF GetKeys, Goto, server, Before, WithKeys, WithFiles
<1>8. CASE MakeKeys(p)
  BY <1>0, <1>3, <1>4, <1>8 DEF MakeKeys, Fails, Goto, server, Before, WithKeys, WithFiles
<1>9. CASE CreateSecret(p)
  BY <1>0, <1>3, <1>4, <1>9 DEF CreateSecret, Fails, Goto, Before, WithKeys, WithFiles
<1>10. CASE Wait(p) \/ Lookup(p)
  <2>1. /\ pc[p] \in {"wait", "dns"} /\ pc'[p] \in {"wait", "dns", "announce"}
        /\ UNCHANGED objects
    BY <1>0, <1>10 DEF Wait, Lookup, Goto, server
  <2>. QED
    BY <1>3, <2>1 DEF Before, WithKeys, WithFiles
<1>11. CASE Announce(p)
  BY <1>4, <1>11 DEF Announce, server
<1>. QED
  BY <1>5, <1>6, <1>61, <1>7, <1>8, <1>9, <1>10, <1>11 DEF Step

\* ReadyInv is inductive.
LEMMA ReadyStep ==
  ASSUME TypeInv, ReadyInv, [Next]_vars
  PROVE  ReadyInv'
<1>0. /\ TypeOK /\ OwnFiles /\ TurnsLeft /\ budget \in [Budgets -> Nat] /\ "fault" \in Budgets
      /\ "kill" \in Budgets /\ "delete" \in Budgets
      /\ Limits["delete"] \in Nat /\ budget["delete"] \in Nat
  BY LimitsAssumption DEF TypeInv, TypeOK, Budgets
<1>1. ASSUME NEW p \in People, Deploy(p) \/ Login(p) \/ Step(p) PROVE ReadyInv'
  <2>1. Moves(p) /\ budget'["delete"] = budget["delete"]
    BY <1>0, <1>1, ScriptStep, SpendStep
  <2>2. objects \subseteq objects' /\ (keys # 0 => keys' # 0)
    BY <1>0, <1>1, ServerStep
  <2>. SUFFICES ASSUME budget["delete"] = Limits["delete"]
                PROVE  (\A q \in People : InOrder(q)') /\ ("deployment" \in objects => Complete)'
    BY <2>1 DEF ReadyInv
  <2>3. InOrder(p)' /\ ("deployment" \in objects => Complete)'
    BY <1>1, ScriptInOrder DEF ReadyInv
  <2>4. ASSUME NEW q \in People \ {p} PROVE InOrder(q)'
    BY <2>1, <2>2 DEF Moves, InOrder, ReadyInv
  <2>. QED
    BY <2>3, <2>4
<1>2. ASSUME NEW p \in People, Kill(p) PROVE ReadyInv'
  <2>1. budget'["delete"] = budget["delete"] /\ UNCHANGED <<objects, keys>>
    BY <1>0, <1>2, SpendStep DEF Kill, server
  <2>2. \A q \in People : pc'[q] = pc[q] \/ pc'[q] = "idle"
    BY <1>0, <1>2, RunTypes DEF Kill, Goto
  <2>. QED
    BY <2>1, <2>2 DEF ReadyInv, InOrder, Complete, Before, WithKeys, WithFiles
<1>3. CASE AssignAddress \/ PublishName \/ UNCHANGED vars
  BY <1>3 DEF AssignAddress, PublishName, ReadyInv, InOrder, Complete, vars, server, runs
<1>4. CASE DeleteNamespace
  <2>1. budget'["delete"] < budget["delete"] /\ budget' \in [Budgets -> Nat]
    BY <1>0, <1>4, SpendStep DEF DeleteNamespace
  <2>2. budget'["delete"] \in Nat
    BY <1>0, <2>1
  <2>. QED
    BY <1>0, <2>1, <2>2 DEF ReadyInv
<1>. QED
  BY <1>1, <1>2, <1>3, <1>4 DEF Next

\* Unless the namespace is deleted, the deployment and a successful end of the
\* script mean that every object and the host keys are there, whoever else ran the
\* script at the same time and wherever those runs ended.
THEOREM DeploymentComplete == Spec => []DeployedWhenReady
<1>1. Init => ReadyInv
  <2>1. Limits["delete"] \in Nat
    BY LimitsAssumption DEF Budgets
  <2>2. Init => \A p \in People : InOrder(p)
    BY DEF Init, InOrder, Before, WithKeys, WithFiles
  <2>3. Init => budget = Limits /\ objects = {}
    BY DEF Init
  <2>. QED
    BY <2>1, <2>2, <2>3 DEF ReadyInv
<1>2. TypeInv /\ ReadyInv => DeployedWhenReady
  <2>. SUFFICES ASSUME TypeInv, ReadyInv, budget["delete"] = Limits["delete"],
                       NEW p \in People, pc[p] = "announce"
                PROVE  Complete
    BY DEF DeployedWhenReady, ReadyInv
  <2>1. Before["announce"] = Objects /\ "announce" \in DOMAIN Before /\ "announce" \in WithKeys
    BY DEF Before, WithKeys, WithFiles
  <2>. QED
    BY <2>1 DEF ReadyInv, InOrder, Complete, TypeInv, TypeOK
<1>. QED
  BY <1>1, <1>2, TypeInit, TypeStep, ReadyStep, PTL DEF Spec
=============================================================================
