------------------------- MODULE UpgradePathsProofs -------------------------
(***************************************************************************)
(* Proofs about UpgradePaths, for any list of channels, any version and    *)
(* any graphs that the API may answer with.  What the drawings show is     *)
(* proved for graphs without loops, what their colours tell for graphs     *)
(* whose edges lead to later releases, and that the channels kept differ   *)
(* for the two channels that the script comes with, or fewer.              *)
(***************************************************************************)
EXTENDS UpgradePaths, TLAPS

\* What is left of a sequence without its first element.
LEMMA TailFacts ==
  ASSUME NEW S, NEW s \in Seq(S), s # <<>>
  PROVE  /\ Head(s) \in S /\ Tail(s) \in Seq(S)
         /\ Range(s) = {Head(s)} \cup Range(Tail(s))
         /\ Len(Tail(s)) = Len(s) - 1 /\ Len(s) \in Nat \ {0}
         /\ IsInjective(s) => IsInjective(Tail(s)) /\ Head(s) \notin Range(Tail(s))
<1>1. /\ Len(s) \in Nat \ {0} /\ DOMAIN s = 1 .. Len(s)
      /\ Head(s) = s[1] /\ Head(s) \in S
      /\ Tail(s) \in Seq(S) /\ Len(Tail(s)) = Len(s) - 1 /\ DOMAIN Tail(s) = 1 .. Len(s) - 1
  OBVIOUS
<1>2. \A i \in DOMAIN Tail(s) : Tail(s)[i] = s[i + 1] /\ i + 1 \in DOMAIN s /\ i + 1 # 1
  OBVIOUS
<1>3. \A i \in DOMAIN s : i = 1 \/ (i - 1 \in DOMAIN Tail(s) /\ s[i] = Tail(s)[i - 1])
  OBVIOUS
<1>4. Range(s) = {Head(s)} \cup Range(Tail(s))
  <2>1. Head(s) \in Range(s)
    BY <1>1 DEF Range
  <2>2. Range(Tail(s)) \subseteq Range(s)
    BY <1>2 DEF Range
  <2>3. Range(s) \subseteq {Head(s)} \cup Range(Tail(s))
    BY <1>1, <1>3 DEF Range
  <2>. QED
    BY <2>1, <2>2, <2>3
<1>5. ASSUME IsInjective(s) PROVE IsInjective(Tail(s)) /\ Head(s) \notin Range(Tail(s))
  <2>1. Head(s) \notin Range(Tail(s))
    BY <1>1, <1>2, <1>5 DEF IsInjective, Range
  <2>2. \A i, j \in DOMAIN Tail(s) : i \in Int /\ j \in Int /\ (i + 1 = j + 1 => i = j)
    BY <1>1
  <2>3. IsInjective(Tail(s))
    BY <1>1, <1>2, <1>5, <2>2 DEF IsInjective
  <2>. QED
    BY <2>1, <2>3
<1>. QED
  BY <1>1, <1>4, <1>5

\* A sequence with one more element.
LEMMA AppendFacts ==
  ASSUME NEW S, NEW s \in Seq(S), NEW x \in S
  PROVE  /\ Append(s, x) \in Seq(S) /\ Append(s, x) # <<>>
         /\ Range(Append(s, x)) = Range(s) \cup {x}
         /\ Len(Append(s, x)) = Len(s) + 1 /\ Len(s) \in Nat
         /\ IsInjective(s) /\ x \notin Range(s) => IsInjective(Append(s, x))
         /\ Append(s, x)[1] = IF s = <<>> THEN x ELSE s[1]
<1>1. /\ Len(s) \in Nat /\ DOMAIN s = 1 .. Len(s)
      /\ Append(s, x) \in Seq(S) /\ Len(Append(s, x)) = Len(s) + 1
      /\ DOMAIN Append(s, x) = 1 .. Len(s) + 1
  OBVIOUS
<1>2. \A i \in DOMAIN s : i \in DOMAIN Append(s, x) /\ Append(s, x)[i] = s[i]
  OBVIOUS
<1>3. Len(s) + 1 \in DOMAIN Append(s, x) /\ Append(s, x)[Len(s) + 1] = x
  OBVIOUS
<1>4. \A i \in DOMAIN Append(s, x) : i \in DOMAIN s \/ i = Len(s) + 1
  BY <1>1
<1>5. Range(Append(s, x)) = Range(s) \cup {x}
  BY <1>2, <1>3, <1>4 DEF Range
<1>6. ASSUME IsInjective(s), x \notin Range(s) PROVE IsInjective(Append(s, x))
  BY <1>2, <1>3, <1>4, <1>6 DEF IsInjective, Range
<1>7. Append(s, x)[1] = IF s = <<>> THEN x ELSE s[1]
  <2>1. CASE s = <<>>
    BY <1>3, <2>1
  <2>2. CASE s # <<>>
    <3>1. 1 \in DOMAIN s
      BY <2>2
    <3>. QED
      BY <1>2, <2>2, <3>1
  <2>. QED
    BY <2>1, <2>2
<1>8. Append(s, x) # <<>>
  BY <1>1
<1>. QED
  BY <1>1, <1>5, <1>6, <1>7, <1>8

\* Nothing is in the empty sequence.
LEMMA EmptyFacts ==
  /\ Range(<<>>) = {} /\ IsInjective(<<>>) /\ Len(<<>>) = 0
  /\ \A S : <<>> \in Seq(S)
  /\ \A S : \A s \in Seq(S) : Range(s) \subseteq S /\ (Range(s) = {} => s = <<>>)
<1>1. Range(<<>>) = {} /\ IsInjective(<<>>) /\ Len(<<>>) = 0
  BY DEF Range, IsInjective
<1>2. ASSUME NEW S, NEW s \in Seq(S) PROVE Range(s) \subseteq S /\ (Range(s) = {} => s = <<>>)
  <2>1. DOMAIN s = 1 .. Len(s) /\ Len(s) \in Nat /\ \A i \in 1 .. Len(s) : s[i] \in S
    OBVIOUS
  <2>2. Range(s) \subseteq S
    BY <2>1 DEF Range
  <2>3. Len(s) = 0 => s = <<>>
    OBVIOUS
  <2>4. Len(s) # 0 => s[1] \in Range(s)
    BY <2>1 DEF Range
  <2>. QED
    BY <2>2, <2>3, <2>4
<1>. QED
  BY <1>1, <1>2

\* The position of a version in a channel.
LEMMA PositionFacts ==
  ASSUME NEW g \in Graphs
  PROVE  /\ \A v \in Range(g.nodes) : /\ Position(g, v) \in DOMAIN g.nodes
                                      /\ g.nodes[Position(g, v)] = v
         /\ \A p \in DOMAIN g.nodes : /\ g.nodes[p] \in Range(g.nodes)
                                      /\ Position(g, g.nodes[p]) = p
<1>1. IsInjective(g.nodes)
  BY GraphsAssumption
<1>2. ASSUME NEW v \in Range(g.nodes)
      PROVE  Position(g, v) \in DOMAIN g.nodes /\ g.nodes[Position(g, v)] = v
  <2>1. \E p \in DOMAIN g.nodes : g.nodes[p] = v
    BY DEF Range
  <2>. QED
    BY <2>1, Zenon DEF Position
<1>3. ASSUME NEW p \in DOMAIN g.nodes
      PROVE  g.nodes[p] \in Range(g.nodes) /\ Position(g, g.nodes[p]) = p
  <2> DEFINE v == g.nodes[p]
  <2>1. v \in Range(g.nodes)
    BY DEF Range
  <2>2. Position(g, v) \in DOMAIN g.nodes /\ g.nodes[Position(g, v)] = v
    BY <1>2, <2>1
  <2>3. Position(g, v) = p
    BY <1>1, <2>2 DEF IsInjective
  <2>. QED
    BY <2>1, <2>3
<1>. QED
  BY <1>2, <1>3

\* An edge is a pair of positions.
LEMMA EdgeFacts ==
  ASSUME NEW g \in Graphs, NEW e \in g.edges
  PROVE  e[1] \in DOMAIN g.nodes /\ e[2] \in DOMAIN g.nodes /\ e = <<e[1], e[2]>>
BY GraphsAssumption

-----------------------------------------------------------------------------
(* The types.                                                               *)

Channels == Range(CHANDEF)

\* Before the graphs are written there is nothing in the gv files.
Unwritten == {"check_prereq", "check_release", "get_paths", "json2gv"}

\* The phases in which channels get their colours.
Coloring == {"colorize", "targets"}

\* The gv file of channel c, if there is one, is about the graph in c's answer.
GvType(c) ==
  /\ gvs[c] = [node |-> gvs[c].node, edge |-> gvs[c].edge]
  /\ gvs[c] # NoFile => /\ DOMAIN gvs[c].node \subseteq DOMAIN file[c].nodes
                        /\ DOMAIN gvs[c].edge \subseteq file[c].edges

TypeInv ==
  /\ TypeOK
  /\ gvs = [c \in Channels |-> gvs[c]] /\ \A c \in Channels : GvType(c)
  /\ phase \in Unwritten => \A c \in Channels : gvs[c] = NoFile
  /\ phase = "targets" => todo # <<>>
  /\ phase \in Coloring => \A c \in Range(todo) : file[c] # NoGraph

\* TypeInv holds at first.
LEMMA TypeInit == Init => TypeInv
<1> SUFFICES ASSUME Init PROVE TypeInv
  OBVIOUS
<1>1. MOD \in Modes /\ TRG \in Minors /\ phase = "check_prereq"
  BY DEF Init, Minors
<1>2. /\ todo \in Seq(Channels) /\ CHA \in Seq(Channels) /\ RES \in Seq(Channels)
      /\ lts \subseteq Nat /\ exported \subseteq Channels
  BY ChannelsAssumption, EmptyFacts DEF Init, Channels
<1>3. file \in [Channels -> Graphs \cup {Empty, NoGraph}]
  BY DEF Init, Channels
<1>4. gvs = [c \in Channels |-> gvs[c]] /\ \A c \in Channels : gvs[c] = NoFile
  BY DEF Init, Channels
<1>5. \A c \in Channels : gvs[c] = [node |-> gvs[c].node, edge |-> gvs[c].edge]
  BY <1>4 DEF NoFile
<1>. QED
  BY <1>1, <1>2, <1>3, <1>4, <1>5 DEF TypeInv, TypeOK, GvType, Unwritten, Coloring, Channels

\* A step that leaves the answers and the gv files alone.
LEMMA TypesKept ==
  ASSUME TypeInv, UNCHANGED <<file, gvs>>,
         MOD' \in Modes, TRG' \in Minors,
         phase' \in {"check_prereq", "check_release", "get_paths", "json2gv",
                     "colorize", "targets", "draw", "done", "exit 1"},
         phase' \in Unwritten => phase \in Unwritten,
         phase' = "targets" => todo' # <<>>,
         phase' \in Coloring => phase \in Coloring /\ Range(todo') \subseteq Range(todo),
         todo' \in Seq(Channels), CHA' \in Seq(Channels), RES' \in Seq(Channels),
         lts' \subseteq Nat, exported' \subseteq Channels
  PROVE  TypeInv'
<1>1. \A c \in Channels : GvType(c)'
  BY DEF TypeInv, GvType
<1>. QED
  BY <1>1 DEF TypeInv, TypeOK, Channels

\* A step that changes the gv file of one channel.
LEMMA GvTypes ==
  ASSUME TypeInv, phase \notin Unwritten, UNCHANGED <<MOD, TRG, file, CHA>>,
         NEW c \in Channels, NEW node, NEW edge,
         gvs' = [gvs EXCEPT ![c] = [node |-> node, edge |-> edge]],
         DOMAIN node \subseteq DOMAIN file[c].nodes, DOMAIN edge \subseteq file[c].edges,
         phase \in Coloring, phase' \in Coloring, Range(todo') \subseteq Range(todo),
         phase' = "targets" => phase = "targets" /\ UNCHANGED todo,
         todo' \in Seq(Channels), RES' \in Seq(Channels),
         lts' \subseteq Nat, UNCHANGED exported
  PROVE  TypeInv'
<1>1. /\ gvs' = [d \in Channels |-> gvs'[d]] /\ gvs'[c] = [node |-> node, edge |-> edge]
      /\ \A d \in Channels \ {c} : gvs'[d] = gvs[d]
  BY DEF TypeInv
<1>2. \A d \in Channels : GvType(d)'
  BY <1>1 DEF TypeInv, GvType
<1>3. phase' \notin Unwritten /\ phase' \in {"colorize", "targets"}
  BY DEF Unwritten, Coloring
<1>4. TypeOK'
  BY <1>2, <1>3 DEF TypeInv, TypeOK, GvType, Channels
<1>. QED
  BY <1>1, <1>2, <1>3, <1>4 DEF TypeInv

\* TypeInv is inductive.
LEMMA TypeStep == TypeInv /\ [Next]_vars => TypeInv'
<1> SUFFICES ASSUME TypeInv, [Next]_vars PROVE TypeInv'
  OBVIOUS
<1>0. /\ MOD \in Modes /\ TRG \in Minors
      /\ phase \in {"check_prereq", "check_release", "get_paths", "json2gv",
                    "colorize", "targets", "draw", "done", "exit 1"}
      /\ todo \in Seq(Channels) /\ CHA \in Seq(Channels) /\ RES \in Seq(Channels)
      /\ lts \subseteq Nat /\ exported \subseteq Channels
      /\ file \in [Channels -> Graphs \cup {Empty, NoGraph}]
  BY DEF TypeInv, TypeOK, Channels
<1>1. todo # <<>> => /\ Head(todo) \in Channels /\ Tail(todo) \in Seq(Channels)
                      /\ Range(Tail(todo)) \subseteq Range(todo)
  <2> HAVE todo # <<>>
  <2>1. todo \in Seq(Channels)
    BY <1>0
  <2>2. /\ Head(todo) \in Channels /\ Tail(todo) \in Seq(Channels)
        /\ Range(todo) = {Head(todo)} \cup Range(Tail(todo))
    BY <2>1, TailFacts
  <2>. QED
    BY <2>2
<1>2. CHANDEF \in Seq(Channels)
  BY ChannelsAssumption DEF Channels
<1>3. CASE UNCHANGED vars
  BY <1>0, <1>3, TypesKept DEF Coloring, vars, TypeInv
<1>4. CASE check_prereq \/ check_release
  BY <1>0, <1>4, TypesKept DEF Coloring, check_prereq, check_release, Unwritten
<1>5. CASE FetchChannel
  <2>1. PICK g \in Graphs \cup {NoGraph} :
          /\ file' = [file EXCEPT ![Head(todo)] = g]
          /\ RES' = IF g # Empty /\ Differs(g) THEN Append(RES, Head(todo)) ELSE RES
    BY <1>5 DEF FetchChannel
  <2>2. /\ phase = "get_paths" /\ todo # <<>> /\ todo' = Tail(todo)
        /\ UNCHANGED <<MOD, phase, TRG, CHA, lts, EXT, gvs, exported>>
    BY <1>5 DEF FetchChannel
  <2>3. file' \in [Channels -> Graphs \cup {Empty, NoGraph}]
    BY <1>0, <2>1
  <2>4. RES' \in Seq(Channels)
    BY <1>0, <1>1, <2>1, <2>2, AppendFacts
  <2>5. \A c \in Channels : gvs'[c] = NoFile
    BY <2>2 DEF TypeInv, Unwritten
  <2>6. \A c \in Channels : GvType(c)'
    BY <2>2, <2>5 DEF TypeInv, GvType
  <2>. QED
    BY <1>0, <1>1, <2>2, <2>3, <2>4, <2>5, <2>6 DEF TypeInv, TypeOK, GvType, Coloring, Channels
<1>6. CASE FetchFails \/ NoChannels \/ WriteFails
  BY <1>0, <1>6, TypesKept DEF Coloring, FetchFails, NoChannels, WriteFails, Unwritten
<1>7. CASE ChannelsFetched
  BY <1>0, <1>7, TypesKept DEF Coloring, ChannelsFetched, Unwritten
<1>8. CASE Retarget
  <2>1. /\ phase = "get_paths" /\ todo' = CHANDEF /\ CHA' = CHANDEF
        /\ TRG' = Minor(VER) /\ MOD' = "4.x.z."
        /\ UNCHANGED <<phase, RES, lts, EXT, gvs, exported>>
    BY <1>8 DEF Retarget
  <2>2. file' \in [Channels -> Graphs \cup {Empty, NoGraph}]
    BY <1>8 DEF Retarget, Channels
  <2>3. TRG' \in Minors /\ MOD' \in Modes
    BY <2>1 DEF Minors, Modes
  <2>4. \A c \in Channels : gvs'[c] = NoFile
    BY <2>1 DEF TypeInv, Unwritten
  <2>5. \A c \in Channels : GvType(c)'
    BY <2>1, <2>4 DEF TypeInv, GvType
  <2>. QED
    BY <1>0, <1>2, <2>1, <2>2, <2>3, <2>4, <2>5 DEF TypeInv, TypeOK, GvType, Coloring, Channels
<1>9. CASE WriteFiles
  <2>1. /\ todo' = CHA /\ phase' \in {"draw", "colorize"} /\ (RES' = RES \/ RES' = <<>>)
        /\ UNCHANGED <<MOD, TRG, file, CHA, lts, EXT, exported>> /\ phase = "json2gv"
        /\ gvs' = [c \in Channels |->
                     IF c \in Range(CHA) THEN json2gv(file[c]) ELSE gvs[c]]
    BY <1>9 DEF WriteFiles, Channels
  <2>2. RES' \in Seq(Channels)
    <3>1. <<>> \in Seq(Channels)
      BY EmptyFacts
    <3>. QED
      BY <1>0, <2>1, <3>1
  <2>3. gvs' = [c \in Channels |-> gvs'[c]]
    BY <2>1
  <2>4. ASSUME NEW c \in Channels PROVE GvType(c)'
    <3>1. CASE c \in Range(CHA)
      <4>1. gvs'[c] = json2gv(file[c])
        BY <2>1, <3>1
      <4>2. file' = file /\ MOD' = MOD
        BY <2>1
      <4>. QED
        BY <4>1, <4>2 DEF GvType, json2gv
    <3>2. CASE c \notin Range(CHA)
      <4>1. gvs'[c] = gvs[c] /\ file' = file
        BY <2>1, <3>2
      <4>. QED
        BY <4>1 DEF TypeInv, GvType
    <3>. QED
      BY <3>1, <3>2
  <2>5. phase' \notin Unwritten
    BY <2>1 DEF Unwritten
  <2>6. \A c \in Range(CHA) : file[c] # NoGraph
    BY <1>9 DEF WriteFiles
  <2>. QED
    BY <1>0, <2>1, <2>2, <2>3, <2>4, <2>5, <2>6 DEF TypeInv, TypeOK, GvType, Coloring, Channels
<1>10. CASE SkipChannel
  BY <1>0, <1>1, <1>10, TypesKept DEF Coloring, SkipChannel, Unwritten
<1>11. CASE StartChannel
  <2> DEFINE g == file[Head(todo)]
  <2>1. /\ phase = "colorize" /\ phase' = "targets" /\ todo # <<>>
        /\ VER \in Range(g.nodes) /\ lts' = capture_lts(g)
        /\ UNCHANGED <<MOD, TRG, todo, file, CHA, RES, EXT, gvs, exported>>
    BY <1>11 DEF StartChannel
  <2>2. g \in Graphs \cup {Empty}
    BY <1>0, <1>1, <2>1, TailFacts DEF TypeInv, Coloring
  <2>3. g.nodes \in Seq(Nat)
    <3>1. Empty.nodes = <<>> /\ <<>> \in Seq(Nat)
      BY DEF Empty
    <3> HIDE DEF g
    <3>. QED
      BY <2>2, <3>1, GraphsAssumption
  <2> HIDE DEF g
  <2>4. lts' \subseteq Nat
    BY <2>1, <2>3, EmptyFacts DEF capture_lts
  <2>. QED
    BY <1>0, <1>1, <2>1, <2>4, TypesKept DEF Unwritten, Coloring
<1>12. CASE ColorTarget
  <2> DEFINE c == Head(todo)
  <2>1. PICK target \in lts :
          /\ gvs' = [gvs EXCEPT ![c] = Colors(file[c], gvs[c], Position(file[c], target))]
          /\ lts' = lts \ {target}
    BY <1>12, Zenon DEF ColorTarget
  <2> DEFINE colors == Colors(file[c], gvs[c], Position(file[c], target))
             node == colors.node
             edge == colors.edge
  <2>2. /\ colors = [node |-> node, edge |-> edge]
        /\ DOMAIN node = DOMAIN gvs[c].node /\ DOMAIN edge = file[c].edges
    BY DEF Colors
  <2>3. /\ phase = "targets" /\ UNCHANGED <<MOD, phase, TRG, todo, file, CHA, RES, exported>>
    BY <1>12 DEF ColorTarget
  <2>4. c \in Channels
    BY <1>1, <2>3 DEF TypeInv
  <2>5. DOMAIN node \subseteq DOMAIN file[c].nodes
    <3>1. DOMAIN NoFile.node = {}
      BY DEF NoFile
    <3>2. DOMAIN gvs[c].node \subseteq DOMAIN file[c].nodes
      BY <2>4, <3>1 DEF TypeInv, GvType
    <3>. QED
      BY <2>2, <3>2
  <2>6. gvs' = [gvs EXCEPT ![c] = [node |-> node, edge |-> edge]] /\ lts' \subseteq Nat
    BY <1>0, <2>1, <2>2
  <2> HIDE DEF colors, node, edge, c
  <2>. QED
    BY <1>0, <2>2, <2>3, <2>4, <2>5, <2>6, GvTypes DEF Unwritten, Coloring
<1>13. CASE FinishChannel
  <2> DEFINE c == Head(todo)
             edge == ColorSourceEdges(file[c], gvs[c].edge)
             n == Colored(gvs[c].node)
             e == Colored(edge)
  <2>1. /\ phase = "targets" /\ gvs' = [gvs EXCEPT ![c] = [node |-> n, edge |-> e]]
        /\ RES' = Append(RES, c) /\ phase' = "colorize" /\ todo' = Tail(todo)
        /\ UNCHANGED <<MOD, TRG, file, CHA, lts, EXT, exported>>
    BY <1>13 DEF FinishChannel
  <2>2. c \in Channels /\ todo' \in Seq(Channels) /\ Range(todo') \subseteq Range(todo)
    BY <1>1, <2>1 DEF TypeInv
  <2>3. RES' \in Seq(Channels)
    BY <1>0, <2>1, <2>2, AppendFacts
  <2>4. DOMAIN n \subseteq DOMAIN file[c].nodes
    <3>1. DOMAIN NoFile.node = {}
      BY DEF NoFile
    <3>2. DOMAIN gvs[c].node \subseteq DOMAIN file[c].nodes
      BY <2>2, <3>1 DEF TypeInv, GvType
    <3>. QED
      BY <3>2 DEF Colored
  <2>5. DOMAIN e \subseteq file[c].edges
    BY DEF Colored, ColorSourceEdges
  <2> HIDE DEF n, e, c
  <2>. QED
    BY <1>0, <2>1, <2>2, <2>3, <2>4, <2>5, GvTypes DEF Unwritten, Coloring
<1>14. CASE Colorized
  BY <1>0, <1>14, TypesKept DEF Coloring, Colorized, Unwritten
<1>15. CASE draw
  <2>1. /\ phase = "draw" /\ todo # <<>> /\ phase' \in {"draw", "done", "exit 1"}
        /\ UNCHANGED <<MOD, TRG, file, CHA, RES, lts, EXT, gvs>>
        /\ todo' = todo \/ todo' = Tail(todo)
        /\ exported' = exported \/ exported' = exported \cup {Head(todo)}
    BY <1>15 DEF draw
  <2>. QED
    BY <1>0, <1>1, <2>1, TypesKept DEF Coloring, Unwritten
<1>. QED
  BY <1>3, <1>4, <1>5, <1>6, <1>7, <1>8, <1>9, <1>10, <1>11, <1>12, <1>13, <1>14, <1>15
     DEF Next

\* Every variable keeps its type.
THEOREM TypeCorrect == Spec => []TypeOK
<1>1. TypeInv => TypeOK
  BY DEF TypeInv
<1>. QED
  BY <1>1, TypeInit, TypeStep, PTL DEF Spec

-----------------------------------------------------------------------------
(* What has been kept, drawn and exported.                                  *)

Fetching == {"check_prereq", "check_release", "get_paths"}
Drawing == {"draw", "done"}

\* While the channels are fetched, each is in what is left or may have been accepted.
FetchInv ==
  phase \in Fetching =>
    /\ CHA = CHANDEF /\ exported = {}
    /\ phase # "get_paths" => todo = CHANDEF /\ RES = <<>>
    /\ IsInjective(todo) /\ IsInjective(RES) /\ Range(todo) \cap Range(RES) = {}
    /\ \A c \in Range(RES) : file[c] # Empty

\* The channels accepted are those to be written.
WriteInv ==
  phase = "json2gv" =>
    /\ CHA = RES /\ CHA # <<>> /\ exported = {} /\ IsInjective(CHA)
    /\ \A c \in Range(CHA) : file[c] # Empty

\* While channels are coloured, each is in what is left or may be a result.
ColoringInv ==
  phase \in Coloring =>
    /\ MOD # "4.x" /\ exported = {}
    /\ IsInjective(todo) /\ Range(todo) \cap Range(RES) = {}
    /\ Range(todo) \cup Range(RES) \subseteq Range(CHA)
    /\ \A c \in Range(CHA) : file[c] \in Graphs \ {Empty}

\* Each result is exported or left to export.
DrawingInv ==
  phase \in Drawing =>
    /\ Range(RES) = exported \cup (IF phase = "draw" THEN Range(todo) ELSE {})
    /\ RES # <<>> /\ Range(RES) \subseteq Range(CHA)
    /\ \A c \in Range(CHA) : file[c] \in Graphs \ {Empty}
    /\ MOD = "4.x" => \A c \in Range(CHA) : gvs[c] = json2gv(file[c])

\* What has been exported stays.
ExportInv ==
  /\ exported \subseteq Range(RES) \cap Range(CHA)
  /\ \A c \in exported : /\ file[c] \notin {Empty, NoGraph}
                         /\ MOD = "4.x" => gvs[c] = json2gv(file[c])

FlowInv == FetchInv /\ WriteInv /\ ColoringInv /\ DrawingInv /\ ExportInv

\* FlowInv holds at first.
LEMMA FlowInit == Init => FlowInv
<1> SUFFICES ASSUME Init PROVE FlowInv
  OBVIOUS
<1>1. /\ phase = "check_prereq" /\ CHA = CHANDEF /\ todo = CHANDEF /\ RES = <<>> /\ exported = {}
  BY DEF Init
<1>2. IsInjective(todo) /\ IsInjective(RES) /\ Range(RES) = {}
  BY <1>1, ChannelsAssumption, EmptyFacts
<1>. QED
  BY <1>1, <1>2 DEF FlowInv, FetchInv, WriteInv, ColoringInv, DrawingInv, ExportInv,
     Fetching, Coloring, Drawing

\* Of the parts of FlowInv only that of the phase says something.
LEMMA FlowParts ==
  /\ phase' \in Fetching /\ FetchInv' => FlowInv'
  /\ phase' = "json2gv" /\ WriteInv' => FlowInv'
  /\ phase' \in Coloring /\ ColoringInv' => FlowInv'
  /\ phase' \in Drawing /\ DrawingInv' => FlowInv'
  /\ phase' = "exit 1" /\ ExportInv' => FlowInv'
<1>1. ASSUME exported' = {} PROVE ExportInv'
  BY <1>1 DEF ExportInv
<1>2. ASSUME phase' \in Fetching, FetchInv' PROVE FlowInv'
  BY <1>1, <1>2 DEF FlowInv, FetchInv, WriteInv, ColoringInv, DrawingInv,
     Fetching, Coloring, Drawing
<1>3. ASSUME phase' = "json2gv", WriteInv' PROVE FlowInv'
  BY <1>1, <1>3 DEF FlowInv, FetchInv, WriteInv, ColoringInv, DrawingInv,
     Fetching, Coloring, Drawing
<1>4. ASSUME phase' \in Coloring, ColoringInv' PROVE FlowInv'
  BY <1>1, <1>4 DEF FlowInv, FetchInv, WriteInv, ColoringInv, DrawingInv,
     Fetching, Coloring, Drawing
<1>5. ASSUME phase' \in Drawing, DrawingInv' PROVE FlowInv'
  <2>1. Range(RES') \subseteq Range(CHA') /\ exported' \subseteq Range(RES')
    BY <1>5 DEF DrawingInv
  <2>2. \A c \in Range(CHA') : /\ file'[c] \notin {Empty, NoGraph}
                               /\ MOD' = "4.x" => gvs'[c] = json2gv(file[c])'
    BY <1>5, AnswersAssumption DEF DrawingInv
  <2>3. ExportInv'
    BY <2>1, <2>2 DEF ExportInv
  <2>. QED
    BY <1>5, <2>3 DEF FlowInv, FetchInv, WriteInv, ColoringInv, Fetching, Coloring, Drawing
<1>6. ASSUME phase' = "exit 1", ExportInv' PROVE FlowInv'
  BY <1>6 DEF FlowInv, FetchInv, WriteInv, ColoringInv, DrawingInv, Fetching, Coloring, Drawing
<1>. QED
  BY <1>2, <1>3, <1>4, <1>5, <1>6

\* What has been exported stays exported.
LEMMA ExportKept ==
  ASSUME ExportInv, UNCHANGED <<MOD, file, CHA, RES, gvs, exported>>
  PROVE  ExportInv'
<1>1. \A c \in exported : json2gv(file[c])' = json2gv(file[c])
  BY DEF json2gv
<1>. QED
  BY <1>1 DEF ExportInv

\* The script ends before anything has been exported.
LEMMA NothingExported ==
  ASSUME exported' = {}
  PROVE  ExportInv'
BY DEF ExportInv

\* FlowInv is inductive.
LEMMA FlowStep == TypeInv /\ FlowInv /\ [Next]_vars => FlowInv'
<1> SUFFICES ASSUME TypeInv, FlowInv, [Next]_vars PROVE FlowInv'
  OBVIOUS
<1> DEFINE h == Head(todo)
           t == Tail(todo)
<1>0. /\ todo \in Seq(Channels) /\ CHA \in Seq(Channels) /\ RES \in Seq(Channels)
  BY DEF TypeInv, TypeOK, Channels
<1>f. file \in [Channels -> Graphs \cup {Empty, NoGraph}]
  BY DEF TypeInv, TypeOK, Channels
<1>h. todo # <<>> => h \in Channels /\ Range(todo) = {h} \cup Range(t)
  BY <1>0, TailFacts
<1>i. todo # <<>> /\ IsInjective(todo) => IsInjective(t) /\ h \notin Range(t)
  BY <1>0, TailFacts
<1>p. h \in Channels => /\ Range(Append(RES, h)) = Range(RES) \cup {h}
                        /\ IsInjective(RES) /\ h \notin Range(RES) => IsInjective(Append(RES, h))
  <2> HIDE DEF h
  <2>. QED
    BY <1>0, AppendFacts
<1>2. Range(<<>>) = {} /\ IsInjective(<<>>) /\ IsInjective(CHANDEF)
      /\ Range(CHA) \subseteq Channels /\ Range(RES) \subseteq Channels
  BY <1>0, EmptyFacts, ChannelsAssumption
<1> HIDE DEF h, t
<1>c. FetchInv /\ WriteInv /\ ColoringInv /\ DrawingInv /\ ExportInv
  BY DEF FlowInv
<1>3. CASE UNCHANGED vars
  <2>1. FetchInv' /\ WriteInv' /\ ColoringInv'
    BY <1>3, <1>c DEF vars, FetchInv, WriteInv, ColoringInv
  <2>2. \A c \in Channels : json2gv(file[c])' = json2gv(file[c])
    BY <1>3 DEF vars, json2gv
  <2>3. DrawingInv'
    BY <1>2, <1>3, <1>c, <2>2 DEF vars, DrawingInv
  <2>4. ExportInv'
    BY <1>3, <1>c, ExportKept DEF vars
  <2>. QED
    BY <2>1, <2>3, <2>4 DEF FlowInv
<1>4. CASE check_prereq \/ check_release
  <2>1. /\ phase \in Fetching /\ phase' \in {"check_release", "get_paths", "exit 1"}
        /\ phase # "get_paths"
        /\ UNCHANGED <<MOD, TRG, todo, file, CHA, RES, lts, EXT, gvs, exported>>
    BY <1>4 DEF check_prereq, check_release, Fetching
  <2>2. CASE phase' = "exit 1"
    BY FlowParts, <1>c, <2>1, <2>2, ExportKept
  <2>3. CASE phase' # "exit 1"
    <3>1. FetchInv' /\ phase' \in Fetching
      BY <1>c, <2>1, <2>3 DEF FetchInv, Fetching
    <3>. QED
      BY FlowParts, <3>1
  <2>. QED
    BY <2>2, <2>3
<1>5. CASE FetchChannel
  <2>1. PICK g \in Graphs \cup {NoGraph} :
          /\ file' = [file EXCEPT ![h] = g]
          /\ RES' = IF g # Empty /\ Differs(g) THEN Append(RES, h) ELSE RES
    BY <1>5 DEF FetchChannel, h, t
  <2>2. /\ phase = "get_paths" /\ todo # <<>> /\ todo' = t
        /\ UNCHANGED <<MOD, phase, TRG, CHA, lts, EXT, gvs, exported>>
    BY <1>5 DEF FetchChannel, h, t
  <2>3. /\ file'[h] = g
        /\ \A c \in Channels \ {h} : file'[c] = file[c]
    BY <1>f, <1>h, <2>1, <2>2
  <2>4. /\ CHA = CHANDEF /\ exported = {} /\ IsInjective(todo) /\ IsInjective(RES)
        /\ Range(todo) \cap Range(RES) = {} /\ \A c \in Range(RES) : file[c] # Empty
    BY <1>c, <2>2 DEF FetchInv, Fetching
  <2>5. /\ h \notin Range(RES) /\ IsInjective(t)
        /\ h \notin Range(t) /\ Range(t) \cap Range(RES) = {}
    BY <1>h, <1>i, <2>2, <2>4
  <2>6. /\ IsInjective(RES') /\ Range(t) \cap Range(RES') = {}
        /\ \A c \in Range(RES') : file'[c] # Empty
    <3>1. CASE RES' = RES
      BY <1>2, <2>3, <2>4, <2>5, <3>1
    <3>2. CASE g # Empty /\ RES' = Append(RES, h)
      <4>1. Range(RES') = Range(RES) \cup {h} /\ IsInjective(RES')
        BY <1>h, <1>p, <2>2, <2>4, <2>5, <3>2
      <4>. QED
        BY <1>2, <2>3, <2>4, <2>5, <3>2, <4>1
    <3>. QED
      BY <2>1, <3>1, <3>2
  <2>7. FetchInv' /\ phase' \in Fetching
    BY <2>2, <2>4, <2>5, <2>6 DEF FetchInv, Fetching
  <2>. QED
    BY FlowParts, <2>7
<1>6. CASE FetchFails \/ NoChannels \/ WriteFails
  <2>1. phase' = "exit 1" /\ exported' = exported /\ phase \in {"get_paths", "json2gv"}
    BY <1>6 DEF FetchFails, NoChannels, WriteFails
  <2>2. exported = {}
    BY <1>c, <2>1 DEF FetchInv, WriteInv, Fetching
  <2>. QED
    BY FlowParts, <2>1, <2>2, NothingExported
<1>7. CASE ChannelsFetched
  <2>1. WriteInv' /\ phase' = "json2gv"
    BY <1>7, <1>c DEF ChannelsFetched, FetchInv, WriteInv, Fetching
  <2>. QED
    BY FlowParts, <2>1
<1>8. CASE Retarget
  <2>1. FetchInv' /\ phase' \in Fetching
    BY <1>2, <1>8, <1>c DEF Retarget, FetchInv, Fetching
  <2>. QED
    BY FlowParts, <2>1
<1>9. CASE WriteFiles
  <2>1. /\ todo' = CHA /\ UNCHANGED <<MOD, TRG, file, CHA, lts, EXT, exported>>
        /\ phase = "json2gv" /\ \A c \in Range(CHA) : file[c] # NoGraph
        /\ \/ MOD = "4.x" /\ phase' = "draw" /\ UNCHANGED RES
           \/ MOD # "4.x" /\ phase' = "colorize" /\ RES' = <<>>
        /\ gvs' = [c \in Channels |->
                     IF c \in Range(CHA) THEN json2gv(file[c]) ELSE gvs[c]]
    BY <1>9 DEF WriteFiles, Channels
  <2>2. /\ CHA = RES /\ CHA # <<>> /\ exported = {} /\ IsInjective(CHA)
        /\ \A c \in Range(CHA) : file[c] \in Graphs \ {Empty}
    BY <1>2, <1>c, <1>f, <2>1 DEF WriteInv
  <2>3. \A c \in Range(CHA) : gvs'[c] = json2gv(file[c]) /\ json2gv(file[c])' = json2gv(file[c])
    BY <1>2, <2>1 DEF json2gv
  <2>4. CASE phase' = "draw"
    <3>1. /\ Range(RES') = Range(CHA) /\ Range(todo') = Range(CHA) /\ Range(CHA') = Range(CHA)
          /\ RES' # <<>> /\ exported' = {}
      BY <2>1, <2>2, <2>4
    <3>2. \A c \in Range(CHA') : file'[c] \in Graphs \ {Empty} /\ gvs'[c] = json2gv(file[c])'
      BY <2>1, <2>2, <2>3
    <3>3. DrawingInv' /\ phase' \in Drawing
      BY <2>4, <3>1, <3>2 DEF DrawingInv, Drawing
    <3>. QED
      BY FlowParts, <3>3
  <2>5. CASE phase' = "colorize"
    <3>1. ColoringInv' /\ phase' \in Coloring
      BY <1>2, <2>1, <2>2, <2>5 DEF ColoringInv, Coloring
    <3>. QED
      BY FlowParts, <3>1
  <2>. QED
    BY <2>1, <2>4, <2>5
<1>10. CASE SkipChannel \/ FinishChannel
  <2>1. /\ phase \in Coloring /\ phase' = "colorize" /\ todo # <<>> /\ todo' = t
        /\ RES' = RES \/ RES' = Append(RES, h)
        /\ UNCHANGED <<MOD, file, CHA, exported>>
    BY <1>10 DEF TypeInv, SkipChannel, FinishChannel, Coloring, h, t
  <2>2. Range(RES') \subseteq Range(RES) \cup {h}
    BY <1>h, <1>p, <2>1
  <2>3. /\ MOD # "4.x" /\ exported = {}
        /\ IsInjective(todo) /\ Range(todo) \cap Range(RES) = {}
        /\ Range(todo) \cup Range(RES) \subseteq Range(CHA)
        /\ \A c \in Range(CHA) : file[c] \in Graphs \ {Empty}
    BY <1>c, <2>1 DEF ColoringInv
  <2>4. /\ IsInjective(t) /\ Range(t) \cap Range(RES') = {}
        /\ Range(t) \cup Range(RES') \subseteq Range(CHA)
    BY <1>h, <1>i, <2>1, <2>2, <2>3
  <2>5. ColoringInv' /\ phase' \in Coloring
    BY <2>1, <2>3, <2>4 DEF ColoringInv, Coloring
  <2>. QED
    BY FlowParts, <2>5
<1>11. CASE StartChannel \/ ColorTarget
  <2>1. ColoringInv' /\ phase' \in Coloring
    BY <1>11, <1>c DEF StartChannel, ColorTarget, ColoringInv, Coloring
  <2>. QED
    BY FlowParts, <2>1
<1>12. CASE Colorized
  <2>1. /\ phase = "colorize" /\ phase' \in {"draw", "exit 1"} /\ todo' = RES
        /\ phase' = "draw" => RES # <<>>
        /\ UNCHANGED <<MOD, TRG, file, CHA, RES, lts, EXT, gvs, exported>>
    BY <1>12 DEF Colorized
  <2>2. /\ MOD # "4.x" /\ exported = {} /\ Range(RES) \subseteq Range(CHA)
        /\ \A c \in Range(CHA) : file[c] \in Graphs \ {Empty}
    BY <1>c, <2>1 DEF ColoringInv, Coloring
  <2>3. CASE phase' = "draw"
    <3>1. DrawingInv' /\ phase' \in Drawing
      BY <2>1, <2>2, <2>3 DEF DrawingInv, Drawing
    <3>. QED
      BY FlowParts, <3>1
  <2>4. CASE phase' = "exit 1"
    BY FlowParts, <2>1, <2>2, <2>4, NothingExported
  <2>. QED
    BY <2>1, <2>3, <2>4
<1>13. CASE draw
  <2>1. /\ phase = "draw" /\ todo # <<>>
        /\ UNCHANGED <<MOD, TRG, file, CHA, RES, lts, EXT, gvs>>
        /\ \/ /\ exported' = exported \cup {h} /\ todo' = t
              /\ phase' = IF todo' = <<>> THEN "done" ELSE phase
           \/ phase' = "exit 1" /\ UNCHANGED <<todo, exported>>
    BY <1>13 DEF draw, h, t
  <2>2. CASE phase' = "exit 1" /\ UNCHANGED <<todo, exported>>
    BY FlowParts, <1>c, <2>1, <2>2, ExportKept
  <2>3. CASE /\ exported' = exported \cup {h} /\ todo' = t
             /\ phase' = IF todo' = <<>> THEN "done" ELSE phase
    <3>1. /\ Range(RES) = exported \cup Range(todo)
          /\ RES # <<>> /\ Range(RES) \subseteq Range(CHA)
          /\ \A c \in Range(CHA) : file[c] \in Graphs \ {Empty}
          /\ MOD = "4.x" => \A c \in Range(CHA) : gvs[c] = json2gv(file[c])
      BY <1>c, <2>1 DEF DrawingInv, Drawing
    <3>2. \A c \in Channels : json2gv(file[c])' = json2gv(file[c])
      BY <2>1 DEF json2gv
    <3>3. Range(RES) = exported' \cup Range(todo')
      BY <1>h, <2>1, <2>3, <3>1
    <3>4. phase' \in {"draw", "done"} /\ (phase' = "done" => Range(todo') = {})
      BY <1>2, <2>1, <2>3
    <3>5. DrawingInv' /\ phase' \in Drawing
      BY <1>2, <2>1, <3>1, <3>2, <3>3, <3>4 DEF DrawingInv, Drawing
    <3>. QED
      BY FlowParts, <3>5
  <2>. QED
    BY <2>1, <2>2, <2>3
<1>. QED
  BY <1>3, <1>4, <1>5, <1>6, <1>7, <1>8, <1>9, <1>10, <1>11, <1>12, <1>13 DEF Next

\* The exit status tells what has been exported: 0 comes when every channel that was
\* kept has been, and there is one; and nothing else is exported.
THEOREM ExitStatusTells == Spec => []StatusTells
<1>1. TypeInv /\ FlowInv => StatusTells
  <2> SUFFICES ASSUME TypeInv, FlowInv PROVE StatusTells
    OBVIOUS
  <2>1. phase = "done" => exported = Range(RES) /\ exported # {}
    <3>1. RES \in Seq(Channels)
      BY DEF TypeInv, TypeOK, Channels
    <3>. QED
      BY <3>1, EmptyFacts DEF FlowInv, DrawingInv, Drawing
  <2>. QED
    BY <2>1 DEF StatusTells, FlowInv, ExportInv
<1>. QED
  BY <1>1, TypeInit, TypeStep, FlowInit, FlowStep, PTL DEF Spec

-----------------------------------------------------------------------------
(* Channels that do not differ.                                             *)

\* The elements of an appended sequence and of a tail, by their places.
LEMMA PlaceFacts ==
  ASSUME NEW S, NEW s \in Seq(S), NEW x \in S
  PROVE  /\ \A i \in 1 .. Len(s) : Append(s, x)[i] = s[i] /\ s[i] \in Range(s)
         /\ Append(s, x)[Len(s) + 1] = x
         /\ \A i \in 1 .. Len(s) - 1 : Tail(s)[i] = s[i + 1]
<1>1. \A i \in 1 .. Len(s) : Append(s, x)[i] = s[i] /\ i \in DOMAIN s
  OBVIOUS
<1>2. Append(s, x)[Len(s) + 1] = x
  OBVIOUS
<1>3. \A i \in 1 .. Len(s) - 1 : Tail(s)[i] = s[i + 1]
  OBVIOUS
<1>. QED
  BY <1>1, <1>2, <1>3 DEF Range

\* The channels yet to fetch are the last ones of the list of all.
Remaining(s) == \A j \in 1 .. Len(s) : s[j] = CHANDEF[Len(CHANDEF) - Len(s) + j]

\* An accepted channel differs from the one that the number of channels accepted
\* before it gives in the list of all.
Compared(s, answer) == \A i \in 1 .. Len(s) - 1 : answer[s[i + 1]] # answer[CHANDEF[i]]

\* None has been skipped.
Leading(s) == \A i \in 1 .. Len(s) : s[i] = CHANDEF[i]

\* While channels are fetched, and from then on.
FetchedInOrder ==
  /\ phase \in Fetching =>
       /\ Len(todo) + Len(RES) <= Len(CHANDEF)
       /\ Remaining(todo) /\ Compared(RES, file)
       /\ Len(todo) + Len(RES) = Len(CHANDEF) => Leading(RES)
  /\ phase \notin Fetching \cup {"exit 1"} =>
       /\ Len(CHA) <= Len(CHANDEF)
       /\ Compared(CHA, file)
       /\ Len(CHA) = Len(CHANDEF) => Leading(CHA)

\* FetchedInOrder holds at first.
LEMMA OrderInit == Init => FetchedInOrder
<1> SUFFICES ASSUME Init PROVE FetchedInOrder
  OBVIOUS
<1>1. phase = "check_prereq" /\ todo = CHANDEF /\ RES = <<>> /\ Len(<<>>) = 0
  BY EmptyFacts DEF Init
<1>2. Len(CHANDEF) \in Nat
  BY ChannelsAssumption
<1>3. Remaining(CHANDEF)
  BY <1>2 DEF Remaining
<1>. QED
  BY <1>1, <1>2, <1>3 DEF FetchedInOrder, Compared, Leading, Fetching

\* Fetching a channel: what is accepted has been compared with the channel at the
\* place that i counts, whose answer is there already and stays.
LEMMA OrderFetch ==
  ASSUME TypeInv, FlowInv, FetchedInOrder, FetchChannel
  PROVE  FetchedInOrder'
<1> DEFINE h == Head(todo)
           a == Len(todo)
           b == Len(RES)
           k == Len(CHANDEF)
<1>1. PICK g \in Graphs \cup {NoGraph} :
        /\ file' = [file EXCEPT ![h] = g]
        /\ RES' = IF g # Empty /\ Differs(g) THEN Append(RES, h) ELSE RES
  BY DEF FetchChannel
<1>2. /\ phase = "get_paths" /\ phase \in Fetching /\ phase' = phase
      /\ todo # <<>> /\ todo' = Tail(todo)
  BY DEF FetchChannel, Fetching
<1>3. /\ todo \in Seq(Channels) /\ RES \in Seq(Channels) /\ CHANDEF \in Seq(Channels)
      /\ file \in [Channels -> Graphs \cup {Empty, NoGraph}]
  BY ChannelsAssumption DEF TypeInv, TypeOK, Channels
<1>4. /\ a \in Nat \ {0} /\ b \in Nat /\ k \in Nat /\ Len(todo') = a - 1
      /\ h \in Channels /\ h = todo[1]
  BY <1>2, <1>3, TailFacts
<1>5. CHA = CHANDEF /\ h \notin Range(RES)
  BY <1>2, <1>3, TailFacts DEF FlowInv, FetchInv
<1>6. /\ a + b <= k /\ Remaining(todo) /\ Compared(RES, file)
      /\ a + b = k => Leading(RES)
  BY <1>2 DEF FetchedInOrder
<1>7. h = CHANDEF[k - a + 1]
  BY <1>4, <1>6 DEF Remaining
<1>8. file'[h] = g /\ \A c \in Channels \ {h} : file'[c] = file[c]
  BY <1>1, <1>3, <1>4
<1>9. \A i \in 1 .. b : RES[i] \in Channels \ {h} /\ CHANDEF[i] \in Channels \ {h}
  <2>1. TAKE i \in 1 .. b
  <2>2. RES[i] \in Channels \ {h}
    BY <1>3, <1>4, <1>5, PlaceFacts
  <2>3. /\ i \in 1 .. k /\ k - a + 1 \in 1 .. k /\ i # k - a + 1
    <3> HIDE DEF a, b, k
    <3>. QED
      BY <1>4, <1>6
  <2>4. CHANDEF[i] \in Channels /\ CHANDEF[i] # h
    <3>1. i \in DOMAIN CHANDEF /\ k - a + 1 \in DOMAIN CHANDEF
      BY <1>3, <2>3
    <3>2. CHANDEF[i] \in Channels
      BY <3>1 DEF Channels, Range
    <3>3. CHANDEF[i] # CHANDEF[k - a + 1]
      BY <2>3, <3>1, ChannelsAssumption DEF IsInjective
    <3>. QED
      BY <1>7, <3>2, <3>3
  <2>. QED
    BY <2>2, <2>4
<1>10. Remaining(todo')
  <2>1. ASSUME NEW j \in 1 .. a - 1 PROVE Tail(todo)[j] = CHANDEF[k - (a - 1) + j]
    <3>1. j + 1 \in 1 .. a /\ k - (a - 1) + j = k - a + (j + 1)
      <4> HIDE DEF a, k
      <4>. QED
        BY <1>4
    <3>2. Tail(todo)[j] = todo[j + 1]
      BY <1>3, <1>4, PlaceFacts
    <3>. QED
      BY <1>6, <3>1, <3>2 DEF Remaining
  <2>. QED
    BY <1>2, <1>4, <2>1 DEF Remaining
<1>11. CASE RES' = RES
  <2>1. Compared(RES, file')
    <3>1. ASSUME NEW i \in 1 .. b - 1 PROVE file'[RES[i + 1]] # file'[CHANDEF[i]]
      <4>1. i \in 1 .. b /\ i + 1 \in 1 .. b
        BY <1>4
      <4>2. file[RES[i + 1]] # file[CHANDEF[i]]
        BY <1>6 DEF Compared
      <4>. QED
        BY <1>8, <1>9, <4>1, <4>2
    <3>. QED
      BY <3>1 DEF Compared
  <2>2. (a - 1) + b < k
    <3> HIDE DEF a, b, k
    <3>. QED
      BY <1>4, <1>6
  <2>. QED
    BY <1>2, <1>4, <1>10, <1>11, <2>1, <2>2 DEF FetchedInOrder
<1>12. CASE RES' = Append(RES, h) /\ Differs(g)
  <2>1. Len(RES') = b + 1 /\ (a - 1) + (b + 1) = a + b
    BY <1>3, <1>4, <1>12, AppendFacts
  <2>2. /\ \A i \in 1 .. b : RES'[i] = RES[i]
        /\ RES'[b + 1] = h
    BY <1>3, <1>4, <1>12, PlaceFacts
  <2>3. ASSUME NEW i \in 1 .. b PROVE file'[RES'[i + 1]] # file'[CHANDEF[i]]
    <3>1. CASE i = b
      <4>1. b # 0 /\ g # file[CHANDEF[b]]
        BY <1>4, <1>5, <1>12, <3>1 DEF Differs
      <4>. QED
        BY <1>8, <1>9, <2>2, <3>1, <4>1
    <3>2. CASE i # b
      <4>1. i \in 1 .. b - 1 /\ i + 1 \in 1 .. b
        BY <1>4, <3>2
      <4>2. file[RES[i + 1]] # file[CHANDEF[i]]
        BY <1>6, <4>1 DEF Compared
      <4>. QED
        BY <1>8, <1>9, <2>2, <4>1, <4>2
    <3>. QED
      BY <3>1, <3>2
  <2>4. Compared(RES', file')
    BY <1>4, <2>1, <2>3 DEF Compared
  <2>5. ASSUME a + b = k PROVE Leading(RES')
    <3>1. k - a + 1 = b + 1
      <4> HIDE DEF a, b, k
      <4>. QED
        BY <1>4, <2>5
    <3>2. RES'[b + 1] = CHANDEF[b + 1]
      BY <1>7, <2>2, <3>1
    <3>3. \A i \in 1 .. b : RES'[i] = CHANDEF[i]
      BY <1>6, <2>2, <2>5 DEF Leading
    <3>4. \A i \in 1 .. b + 1 : i \in 1 .. b \/ i = b + 1
      BY <1>4
    <3>. QED
      BY <2>1, <3>2, <3>3, <3>4 DEF Leading
  <2>. QED
    BY <1>2, <1>4, <1>6, <1>10, <2>1, <2>4, <2>5 DEF FetchedInOrder
<1>. QED
  BY <1>1, <1>11, <1>12

\* FetchedInOrder is inductive.
LEMMA OrderStep == TypeInv /\ FlowInv /\ FetchedInOrder /\ [Next]_vars => FetchedInOrder'
<1> SUFFICES ASSUME TypeInv, FlowInv, FetchedInOrder, [Next]_vars PROVE FetchedInOrder'
  OBVIOUS
<1>1. ASSUME UNCHANGED <<CHA, file, RES, todo>>,
             phase' = phase \/ (phase \in Fetching /\ phase' \in Fetching \cup {"exit 1"})
      PROVE  FetchedInOrder'
  BY <1>1 DEF FetchedInOrder, Remaining, Compared, Leading, Fetching
<1>2. ASSUME UNCHANGED <<CHA, file>>, phase \notin Fetching, phase' \notin Fetching,
             phase = "exit 1" => phase' = "exit 1"
      PROVE  FetchedInOrder'
  BY <1>2 DEF FetchedInOrder, Compared, Leading
<1>3. CASE ChannelsFetched
  <2>1. /\ phase = "get_paths" /\ phase' = "json2gv" /\ CHA' = RES /\ UNCHANGED file
        /\ todo = <<>> /\ RES \in Seq(Channels)
    BY <1>3 DEF ChannelsFetched, TypeInv, TypeOK, Channels
  <2>2. Len(todo) + Len(RES) = Len(RES)
    BY <2>1, EmptyFacts
  <2>3. /\ Len(RES) <= Len(CHANDEF) /\ Compared(RES, file)
        /\ Len(RES) = Len(CHANDEF) => Leading(RES)
    BY <2>1, <2>2 DEF FetchedInOrder, Fetching
  <2>. QED
    BY <2>1, <2>3 DEF FetchedInOrder, Fetching
<1>4. CASE Retarget
  <2>1. /\ phase = "get_paths" /\ phase' = phase /\ todo' = CHANDEF /\ RES' = RES
        /\ RES = <<>> /\ Len(<<>>) = 0
    BY <1>4, EmptyFacts DEF Retarget
  <2>2. Len(CHANDEF) \in Nat
    BY ChannelsAssumption
  <2>3. Remaining(CHANDEF)
    BY <2>2 DEF Remaining
  <2>. QED
    BY <2>1, <2>2, <2>3 DEF FetchedInOrder, Compared, Leading, Fetching
<1>5. CASE NoChannels
  BY <1>5 DEF NoChannels, FetchedInOrder, Fetching
<1>. QED
  BY <1>1, <1>2, <1>3, <1>4, <1>5, OrderFetch DEF Next, vars, Fetching, check_prereq, check_release,
     FetchFails, WriteFiles, WriteFails, SkipChannel, StartChannel, ColorTarget,
     FinishChannel, Colorized, draw

\* As long as no channel has been dropped before it, a channel that is kept is not
\* followed by an equal one, however many channels there are.  (After a channel
\* that was dropped the next one is compared with the wrong one: line 171 finds the
\* channel by counting those kept in the list of all.)
THEOREM KeptChannelsDiffer ==
  Spec => [](phase \in {"json2gv", "colorize", "targets", "draw", "done"} =>
               \A i \in 1 .. Len(CHA) - 1 :
                 CHA[i] = CHANDEF[i] => file[CHA[i]] # file[CHA[i + 1]])
<1> DEFINE P == phase \in {"json2gv", "colorize", "targets", "draw", "done"} =>
                  \A i \in 1 .. Len(CHA) - 1 :
                    CHA[i] = CHANDEF[i] => file[CHA[i]] # file[CHA[i + 1]]
<1>1. FetchedInOrder => P
  BY DEF FetchedInOrder, Compared, Fetching
<1>. QED
  BY <1>1, OrderInit, OrderStep, TypeInit, TypeStep, FlowInit, FlowStep, PTL DEF Spec

\* With the two channels that the script comes with, or fewer, and whenever no
\* channel has been dropped, no channel is kept next to an equal one.
THEOREM ChannelsDiffer ==
  Spec => [](Len(CHANDEF) <= 2 \/ Len(CHA) = Len(CHANDEF) => NoDuplicates)
<1> DEFINE P == Len(CHANDEF) <= 2 \/ Len(CHA) = Len(CHANDEF) => NoDuplicates
<1>1. TypeInv /\ FetchedInOrder => P
  <2> SUFFICES ASSUME TypeInv, FetchedInOrder, Len(CHANDEF) <= 2 \/ Len(CHA) = Len(CHANDEF),
                      phase \in {"json2gv", "colorize", "targets", "draw", "done"},
                      NEW i \in 1 .. Len(CHA) - 1
               PROVE  file[CHA[i]] # file[CHA[i + 1]]
    BY DEF NoDuplicates
  <2>1. /\ Len(CHA) <= Len(CHANDEF) /\ Compared(CHA, file)
        /\ Len(CHA) = Len(CHANDEF) => Leading(CHA)
    BY DEF FetchedInOrder, Fetching
  <2>2. Len(CHA) \in Nat /\ Len(CHANDEF) \in Nat
    <3>1. CHA \in Seq(Channels)
      BY DEF TypeInv, TypeOK, Channels
    <3>2. CHANDEF \in Seq(Channels)
      BY ChannelsAssumption DEF Channels
    <3>. QED
      BY <3>1, <3>2
  <2>3. Len(CHA) = Len(CHANDEF) /\ i \in 1 .. Len(CHA)
    <3> DEFINE b == Len(CHA)
               k == Len(CHANDEF)
    <3>1. b \in Nat /\ k \in Nat /\ b <= k /\ (k <= 2 \/ b = k) /\ i \in 1 .. b - 1
      BY <2>1, <2>2
    <3> HIDE DEF b, k
    <3>2. b = k /\ i \in 1 .. b
      BY <3>1
    <3>. QED
      BY <3>2 DEF b, k
  <2>. QED
    BY <2>1, <2>3 DEF Leading, Compared
<1>. QED
  BY <1>1, OrderInit, OrderStep, TypeInit, TypeStep, FlowInit, FlowStep, PTL DEF Spec

-----------------------------------------------------------------------------
(* What the drawings show.                                                  *)

Source(g) == Position(g, VER)

\* The nodes between the source and position t, and between it and one of the positions in D.
Via(g, t) == {n \in IND(g) : <<n, t>> \in g.edges}
Inner(g, D) == {n \in IND(g) : \E t \in D : <<n, t>> \in g.edges}

\* One or two hops lead from the source to position t.
Reached(g, t) == t \in IND(g) \/ Via(g, t) # {}

\* The colours when the targets at the positions in D are done with.
EdgeColors(g, gv, D) ==
  /\ DOMAIN gv.edge = g.edges
  /\ \A e \in g.edges : gv.edge[e] = IF e[2] \in D /\ e[1] = Source(g) THEN "EDGt"
                                     ELSE IF e[2] \in D /\ e[1] \in IND(g) THEN "EDGs" ELSE "DEF"

NodesShown(g, gv, D) ==
  /\ DOMAIN gv.node = DOMAIN g.nodes
  /\ \A p \in DOMAIN g.nodes :
       gv.node[p] # "DEF" <=> p = Source(g) \/ (p \in D /\ Reached(g, p)) \/ p \in Inner(g, D)

NodeColors(g, gv, D) ==
  \A p \in DOMAIN g.nodes : gv.node[p] = IF p = Source(g) THEN "NODs"
                                         ELSE IF p \in D /\ Reached(g, p) THEN "NODt"
                                         ELSE IF p \in Inner(g, D) THEN "NODi" ELSE "DEF"

\* The positions that IND holds are those that an edge leads to from the source.
LEMMA IndFacts ==
  ASSUME NEW g \in Graphs
  PROVE  \A n : /\ n \in IND(g) <=> <<Source(g), n>> \in g.edges
                /\ n \in IND(g) => n \in DOMAIN g.nodes
<1> SUFFICES ASSUME NEW n
             PROVE  /\ n \in IND(g) <=> <<Source(g), n>> \in g.edges
                    /\ n \in IND(g) => n \in DOMAIN g.nodes
  OBVIOUS
<1>1. ASSUME n \in IND(g) PROVE <<Source(g), n>> \in g.edges /\ n \in DOMAIN g.nodes
  <2>1. PICK e \in g.edges : e[1] = Source(g) /\ e[2] = n
    BY <1>1 DEF IND, Source
  <2>. QED
    BY <2>1, EdgeFacts
<1>2. ASSUME <<Source(g), n>> \in g.edges PROVE n \in IND(g)
  BY <1>2 DEF IND, Source
<1>. QED
  BY <1>1, <1>2

\* The edges get the colours that the next target asks for.
LEMMA EdgesColored ==
  ASSUME LoopFree, NEW g \in Graphs, NEW D, NEW t \in DOMAIN g.nodes, t \notin D,
         NEW gv, EdgeColors(g, gv, D)
  PROVE  Indirect(g, gv, t) = Via(g, t) /\ EdgeColors(g, Colors(g, gv, t), D \cup {t})
<1> DEFINE s == Source(g)
           I == IND(g)
           V == Via(g, t)
<1>1. \A e \in g.edges : e = <<e[1], e[2]>> /\ e[1] # e[2]
  BY EdgeFacts DEF LoopFree
<1>2. s \notin I
  <2>1. s \in I => <<s, s>> \in g.edges
    BY IndFacts
  <2>2. <<s, s>>[1] = <<s, s>>[2]
    OBVIOUS
  <2>. QED
    BY <1>1, <2>1, <2>2
<1>3. Indirect(g, gv, t) = V
  BY <1>1 DEF Indirect, Via, EdgeColors
<1>4. /\ DOMAIN Colors(g, gv, t).edge = g.edges
      /\ \A e \in g.edges : Colors(g, gv, t).edge[e] =
           IF t \in I /\ e = <<s, t>> THEN "EDGt"
           ELSE IF e[2] = t /\ e[1] \in V THEN "EDGs" ELSE gv.edge[e]
  <2> DEFINE W == Indirect(g, gv, t)
             edge == [e \in g.edges |->
                        IF t \in I /\ e = <<s, t>> THEN "EDGt"
                        ELSE IF e[2] = t /\ e[1] \in W THEN "EDGs" ELSE gv.edge[e]]
  <2>1. Colors(g, gv, t).edge = edge
    BY DEF Colors, Source
  <2> HIDE DEF W, I, s, V
  <2>2. /\ DOMAIN edge = g.edges
        /\ \A e \in g.edges : edge[e] = IF t \in I /\ e = <<s, t>> THEN "EDGt"
                                         ELSE IF e[2] = t /\ e[1] \in W THEN "EDGs" ELSE gv.edge[e]
    OBVIOUS
  <2>3. W = V
    BY <1>3 DEF W
  <2> HIDE DEF edge
  <2>. QED
    BY <2>1, <2>2, <2>3
<1>5. \A e \in g.edges : /\ t \in I /\ e = <<s, t>> <=> e[2] = t /\ e[1] = s
                         /\ e[2] = t => (e[1] \in V <=> e[1] \in I)
  BY <1>1, IndFacts DEF Via
<1>6. \A e \in g.edges : gv.edge[e] = IF e[2] \in D /\ e[1] = s THEN "EDGt"
                                      ELSE IF e[2] \in D /\ e[1] \in I THEN "EDGs" ELSE "DEF"
  BY DEF EdgeColors
<1> HIDE DEF s, I, V
<1>7. \A e \in g.edges : Colors(g, gv, t).edge[e] =
        IF e[2] \in D \cup {t} /\ e[1] = s THEN "EDGt"
        ELSE IF e[2] \in D \cup {t} /\ e[1] \in I THEN "EDGs" ELSE "DEF"
  BY <1>2, <1>4, <1>5, <1>6
<1>. QED
  BY <1>3, <1>4, <1>7 DEF EdgeColors, s, I, V

\* The nodes shown are those on paths to the targets done with.
LEMMA NodesColored ==
  ASSUME LoopFree, NEW g \in Graphs, NEW D, NEW t \in DOMAIN g.nodes, t \notin D,
         NEW gv, EdgeColors(g, gv, D), NodesShown(g, gv, D)
  PROVE  NodesShown(g, Colors(g, gv, t), D \cup {t})
<1> DEFINE V == Via(g, t)
           R == Reached(g, t)
           n == Colors(g, gv, t).node
<1>1. /\ DOMAIN n = DOMAIN g.nodes
      /\ \A p \in DOMAIN g.nodes :
           n[p] = IF p = t /\ R THEN "NODt" ELSE IF p \in V THEN "NODi" ELSE gv.node[p]
  BY EdgesColored DEF Colors, NodesShown, Reached
<1>2. Inner(g, D \cup {t}) = Inner(g, D) \cup V
  BY DEF Inner, Via
<1>3. \A p \in DOMAIN g.nodes :
        gv.node[p] # "DEF" <=> p = Source(g) \/ (p \in D /\ Reached(g, p)) \/ p \in Inner(g, D)
  BY DEF NodesShown
<1> HIDE DEF n, V
<1>4. \A p \in DOMAIN g.nodes : n[p] # "DEF" <=>
        p = Source(g) \/ (p \in D \cup {t} /\ Reached(g, p)) \/ p \in Inner(g, D) \cup V
  BY <1>1, <1>3
<1>. QED
  BY <1>1, <1>2, <1>4 DEF NodesShown, n

\* When upgrades lead to later releases and the latest target comes first, no target
\* that is done with is between the source and one that is not.
LEMMA NodesTold ==
  ASSUME Ascending, NEW g \in Graphs, VER \in Range(g.nodes),
         NEW D \in SUBSET DOMAIN g.nodes, NEW t \in DOMAIN g.nodes, t \notin D,
         \A p \in D : g.nodes[t] < g.nodes[p],
         NEW gv, EdgeColors(g, gv, D), NodesShown(g, gv, D), NodeColors(g, gv, D)
  PROVE  NodeColors(g, Colors(g, gv, t), D \cup {t})
<1> DEFINE s == Source(g)
           V == Via(g, t)
           R == Reached(g, t)
           n == Colors(g, gv, t).node
<1>1. \A p \in DOMAIN g.nodes : g.nodes[p] \in Nat
  BY GraphsAssumption
<1>2. LoopFree
  <2>1. SUFFICES ASSUME NEW f \in Graphs, NEW e \in f.edges PROVE e[1] # e[2]
    BY DEF LoopFree
  <2>2. e[1] \in DOMAIN f.nodes /\ e = <<e[1], e[2]>>
    BY EdgeFacts
  <2>3. f.nodes[e[1]] \in Nat
    BY <2>2, GraphsAssumption
  <2>4. f.nodes[e[1]] < f.nodes[e[2]]
    BY <2>2 DEF Ascending
  <2>. QED
    BY <2>3, <2>4
<1>3. \A p \in DOMAIN g.nodes :
        n[p] = IF p = t /\ R THEN "NODt" ELSE IF p \in V THEN "NODi" ELSE gv.node[p]
  BY <1>2, EdgesColored DEF Colors, NodesShown, Reached
<1>4. Inner(g, D \cup {t}) = Inner(g, D) \cup V
  BY DEF Inner, Via
<1>5. \A p, q : <<p, q>> \in g.edges => /\ p \in DOMAIN g.nodes /\ q \in DOMAIN g.nodes
                                        /\ g.nodes[p] < g.nodes[q]
  BY GraphsAssumption DEF Ascending
<1>6. s \in DOMAIN g.nodes
  BY PositionFacts DEF Source
<1>7. \A p \in V : p # s /\ p # t /\ p \notin D
  <2>1. SUFFICES ASSUME NEW p \in V PROVE p # s /\ p # t /\ p \notin D
    OBVIOUS
  <2>2. p \in DOMAIN g.nodes /\ g.nodes[s] < g.nodes[p] /\ g.nodes[p] < g.nodes[t]
    BY <1>5, <2>1, IndFacts DEF Via
  <2>3. \A q \in D : g.nodes[q] \in Nat /\ g.nodes[t] < g.nodes[q]
    BY <1>1
  <2>. QED
    BY <1>1, <1>6, <2>2, <2>3
<1>8. R => t # s
  <2>1. SUFFICES ASSUME R PROVE g.nodes[s] < g.nodes[t]
    BY <1>1, <1>6
  <2>2. CASE t \in IND(g)
    BY <1>5, <2>2, IndFacts
  <2>3. CASE V # {}
    <3>1. PICK p \in V : TRUE
      BY <2>3
    <3>2. p \in DOMAIN g.nodes /\ g.nodes[s] < g.nodes[p] /\ g.nodes[p] < g.nodes[t]
      BY <1>5, <3>1, IndFacts DEF Via
    <3>. QED
      BY <1>1, <1>6, <3>2
  <2>. QED
    BY <2>1, <2>2, <2>3 DEF Reached
<1>9. \A p \in DOMAIN g.nodes : gv.node[p] = IF p = s THEN "NODs"
                                             ELSE IF p \in D /\ Reached(g, p) THEN "NODt"
                                             ELSE IF p \in Inner(g, D) THEN "NODi" ELSE "DEF"
  BY DEF NodeColors
<1> HIDE DEF s, V, n
<1>10. \A p \in DOMAIN g.nodes : n[p] = IF p = s THEN "NODs"
                                        ELSE IF p \in D \cup {t} /\ Reached(g, p) THEN "NODt"
                                        ELSE IF p \in Inner(g, D) \cup V THEN "NODi" ELSE "DEF"
  BY <1>3, <1>7, <1>8, <1>9
<1>. QED
  BY <1>4, <1>10 DEF NodeColors, n, s

\* What FinishChannel leaves of the gv file of a channel.
Finished(g, gv) == [node |-> Colored(gv.node), edge |-> Colored(ColorSourceEdges(g, gv.edge))]

\* The paths of the reference, in terms of the positions that IND holds.
LEMMA PathFacts ==
  ASSUME NEW g \in Graphs, VER \in Range(g.nodes)
  PROVE  LET s == Source(g) I == IND(g) T == Targets(g)
         IN /\ Direct(g) = {e \in g.edges : e[1] = s /\ e[2] \in T}
            /\ Second(g) = {e \in g.edges : e[1] \in I /\ e[2] \in T}
            /\ First(g) = {e \in g.edges : e[1] = s /\ e[2] \in Inner(g, T)}
            /\ {s} \cup Ends(Paths(g)) =
                 {p \in DOMAIN g.nodes : p = s \/ (p \in T /\ Reached(g, p)) \/ p \in Inner(g, T)}
            /\ s \in DOMAIN g.nodes /\ T \subseteq DOMAIN g.nodes
            /\ \A p \in DOMAIN g.nodes : g.nodes[p] = VER <=> p = s
<1> DEFINE s == Source(g)
           I == IND(g)
           T == Targets(g)
           N == Inner(g, T)
<1>1. s \in DOMAIN g.nodes /\ \A p \in DOMAIN g.nodes : g.nodes[p] = VER <=> p = s
  BY PositionFacts DEF Source
<1>2. \A e \in g.edges : e = <<e[1], e[2]>> /\ e[1] \in DOMAIN g.nodes /\ e[2] \in DOMAIN g.nodes
  BY EdgeFacts
<1>3. Direct(g) = {e \in g.edges : e[1] = s /\ e[2] \in T}
  BY <1>1, <1>2 DEF Direct
<1>4. \A n : n \in I <=> <<s, n>> \in g.edges
  BY IndFacts
<1>5. Second(g) = {e \in g.edges : e[1] \in I /\ e[2] \in T}
  BY <1>4 DEF Second, Source
<1>6. \A p : (\E d \in Second(g) : d[1] = p) <=> p \in N
  <2>1. ASSUME NEW d \in Second(g) PROVE d[1] \in N
    BY <1>2, <1>5, <2>1 DEF Inner
  <2>2. ASSUME NEW p \in N PROVE \E d \in Second(g) : d[1] = p
    <3>1. PICK t \in T : p \in I /\ <<p, t>> \in g.edges
      BY <2>2 DEF Inner
    <3>2. <<p, t>>[1] = p /\ <<p, t>>[2] = t
      OBVIOUS
    <3>. QED
      BY <1>5, <3>1, <3>2
  <2>. QED
    BY <2>1, <2>2
<1>7. First(g) = {e \in g.edges : e[1] = s /\ e[2] \in N}
  <2>1. \A e \in g.edges : g.nodes[e[1]] = VER <=> e[1] = s
    BY <1>1, <1>2
  <2>. QED
    BY <1>6, <2>1 DEF First
<1>8. \A p : p \in T => (Reached(g, p) <=> p \in I \/ \E e \in Second(g) : e[2] = p)
  <2>1. ASSUME NEW p \in T, NEW n \in Via(g, p) PROVE \E e \in Second(g) : e[2] = p
    <3>1. <<n, p>> \in Second(g)
      BY <1>5, <2>1 DEF Via
    <3>. QED
      BY <3>1
  <2>2. ASSUME NEW e \in Second(g) PROVE e[1] \in Via(g, e[2])
    BY <1>2, <1>5, <2>2 DEF Via
  <2>. QED
    BY <2>1, <2>2 DEF Reached
<1>9. \A p : p \in T /\ p \in I => <<s, p>> \in Direct(g)
  BY <1>3, <1>4
<1>10. T \subseteq DOMAIN g.nodes /\ N \subseteq I /\ I \subseteq DOMAIN g.nodes
  BY IndFacts DEF Targets, Inner
<1>11. \A p \in N : <<s, p>> \in First(g)
  BY <1>4, <1>7, <1>10
<1>a. \A p : p \in Ends(Paths(g)) <=> \E e \in Paths(g) : e[1] = p \/ e[2] = p
  BY DEF Ends
<1>b. \A e : e \in Paths(g) <=> e \in Direct(g) \/ e \in First(g) \/ e \in Second(g)
  BY DEF Paths
<1> HIDE DEF s, I, T, N
<1>12. ASSUME NEW p \in {s} \cup Ends(Paths(g))
       PROVE  p \in DOMAIN g.nodes /\ (p = s \/ (p \in T /\ Reached(g, p)) \/ p \in N)
  <2>1. CASE p = s
    BY <1>1, <2>1
  <2>2. CASE p # s
    <3>1. PICK e \in Paths(g) : e[1] = p \/ e[2] = p
      BY <1>12, <1>a, <2>2
    <3>2. CASE e \in Direct(g)
      <4>1. e[2] \in I
        BY <1>2, <1>3, <1>4, <3>2
      <4>. QED
        BY <1>3, <1>8, <1>10, <2>2, <3>1, <3>2, <4>1
    <3>3. CASE e \in First(g)
      BY <1>7, <1>10, <2>2, <3>1, <3>3
    <3>4. CASE e \in Second(g)
      BY <1>5, <1>6, <1>8, <1>10, <3>1, <3>4
    <3>. QED
      BY <1>b, <3>2, <3>3, <3>4
  <2>. QED
    BY <2>1, <2>2
<1>13. ASSUME NEW p, p \in T, Reached(g, p) PROVE p \in Ends(Paths(g))
  <2>1. CASE p \in I
    <3>1. <<s, p>> \in Paths(g) /\ <<s, p>>[2] = p
      BY <1>9, <1>13, <1>b, <2>1
    <3>. QED
      BY <1>a, <3>1
  <2>2. CASE \E e \in Second(g) : e[2] = p
    BY <1>a, <1>b, <2>2
  <2>. QED
    BY <1>8, <1>13, <2>1, <2>2
<1>14. ASSUME NEW p \in N PROVE p \in Ends(Paths(g))
  BY <1>6, <1>14, <1>a, <1>b
<1>15. {s} \cup Ends(Paths(g)) =
         {p \in DOMAIN g.nodes : p = s \/ (p \in T /\ Reached(g, p)) \/ p \in N}
  BY <1>12, <1>13, <1>14
<1>. QED
  BY <1>1, <1>3, <1>5, <1>7, <1>10, <1>15 DEF s, I, T, N

\* A finished drawing shows the nodes of the paths and the source, no edge of a path is
\* missing, and the other edges start at the source.
LEMMA FinishedShown ==
  ASSUME NEW g \in Graphs, VER \in Range(g.nodes),
         NEW gv, EdgeColors(g, gv, Targets(g)), NodesShown(g, gv, Targets(g)),
         Inner(g, Targets(g)) \subseteq EXT
  PROVE  /\ DOMAIN Finished(g, gv).node = {Source(g)} \cup Ends(Paths(g))
         /\ Paths(g) \subseteq DOMAIN Finished(g, gv).edge
         /\ \A e \in DOMAIN Finished(g, gv).edge \ Paths(g) : e[1] = Source(g)
         /\ EXT \subseteq Inner(g, Targets(g)) => DOMAIN Finished(g, gv).edge = Paths(g)
<1> DEFINE s == Source(g)
           I == IND(g)
           T == Targets(g)
           N == Inner(g, T)
           F == Finished(g, gv)
<1>1. /\ Direct(g) = {e \in g.edges : e[1] = s /\ e[2] \in T}
      /\ Second(g) = {e \in g.edges : e[1] \in I /\ e[2] \in T}
      /\ First(g) = {e \in g.edges : e[1] = s /\ e[2] \in N}
      /\ {s} \cup Ends(Paths(g)) =
           {p \in DOMAIN g.nodes : p = s \/ (p \in T /\ Reached(g, p)) \/ p \in N}
  BY PathFacts
<1>2. DOMAIN F.node = {p \in DOMAIN g.nodes : gv.node[p] # "DEF"}
  BY DEF Finished, Colored, NodesShown
<1>3. DOMAIN F.node = {s} \cup Ends(Paths(g))
  <2>1. \A p \in DOMAIN g.nodes :
          gv.node[p] # "DEF" <=> p = s \/ (p \in T /\ Reached(g, p)) \/ p \in N
    BY DEF NodesShown
  <2>. QED
    BY <1>1, <1>2, <2>1
<1>4. DOMAIN F.edge = {e \in g.edges : gv.edge[e] # "DEF" \/ (e[1] = s /\ e[2] \in EXT)}
  <2> DEFINE f == ColorSourceEdges(g, gv.edge)
  <2>1. /\ DOMAIN f = g.edges
        /\ \A e \in g.edges : f[e] = IF e[1] = s /\ e[2] \in EXT /\ gv.edge[e] = "DEF"
                                     THEN "EDGs" ELSE gv.edge[e]
    BY DEF ColorSourceEdges, Source
  <2> HIDE DEF f
  <2>2. DOMAIN Colored(f) = {e \in DOMAIN f : f[e] # "DEF"}
    BY DEF Colored
  <2>3. F.edge = Colored(f)
    BY DEF Finished, f
  <2> HIDE DEF F, s
  <2>. QED
    BY <2>1, <2>2, <2>3
<1>5. \A e \in g.edges : gv.edge[e] # "DEF" <=> e[2] \in T /\ (e[1] = s \/ e[1] \in I)
  BY DEF EdgeColors
<1>6. DOMAIN F.edge = {e \in g.edges : \/ e[2] \in T /\ (e[1] = s \/ e[1] \in I)
                                       \/ e[1] = s /\ e[2] \in EXT}
  BY <1>4, <1>5
<1>7. N \subseteq EXT
  OBVIOUS
<1>8. \A e : e \in Paths(g) <=> e \in Direct(g) \/ e \in First(g) \/ e \in Second(g)
  BY DEF Paths
<1> HIDE DEF s, I, T, N, F
<1>9. Paths(g) \subseteq DOMAIN F.edge /\ \A e \in DOMAIN F.edge \ Paths(g) : e[1] = s
  BY <1>1, <1>6, <1>7, <1>8
<1>10. EXT \subseteq N => DOMAIN F.edge = Paths(g)
  BY <1>1, <1>6, <1>7, <1>8
<1>. QED
  BY <1>3, <1>9, <1>10 DEF s, N, T, F

\* The colours of a finished drawing tell the kinds of path apart.
LEMMA FinishedTold ==
  ASSUME LoopFree, NEW g \in Graphs, VER \in Range(g.nodes),
         NEW gv, EdgeColors(g, gv, Targets(g)), NodesShown(g, gv, Targets(g)),
         NodeColors(g, gv, Targets(g)), Inner(g, Targets(g)) \subseteq EXT
  PROVE  /\ \A e \in Paths(g) :
              Finished(g, gv).edge[e] = IF e \in Direct(g) THEN "EDGt" ELSE "EDGs"
         /\ \A p \in Ends(Paths(g)) :
              Finished(g, gv).node[p] = IF g.nodes[p] = VER THEN "NODs"
                                        ELSE IF p \in Targets(g) THEN "NODt" ELSE "NODi"
<1> DEFINE s == Source(g)
           I == IND(g)
           T == Targets(g)
           N == Inner(g, T)
           F == Finished(g, gv)
           f == ColorSourceEdges(g, gv.edge)
<1>1. /\ Direct(g) = {e \in g.edges : e[1] = s /\ e[2] \in T}
      /\ Second(g) = {e \in g.edges : e[1] \in I /\ e[2] \in T}
      /\ First(g) = {e \in g.edges : e[1] = s /\ e[2] \in N}
      /\ {s} \cup Ends(Paths(g)) =
           {p \in DOMAIN g.nodes : p = s \/ (p \in T /\ Reached(g, p)) \/ p \in N}
      /\ \A p \in DOMAIN g.nodes : g.nodes[p] = VER <=> p = s
  BY PathFacts
<1>2. Paths(g) \subseteq DOMAIN F.edge /\ DOMAIN F.node = {s} \cup Ends(Paths(g))
  BY FinishedShown
<1>3. /\ F.edge = Colored(f) /\ F.node = Colored(gv.node)
      /\ \A e \in DOMAIN Colored(f) : Colored(f)[e] = f[e]
      /\ \A p \in DOMAIN Colored(gv.node) : Colored(gv.node)[p] = gv.node[p]
  BY DEF Finished, Colored
<1>4. \A e \in g.edges : f[e] = IF e[1] = s /\ e[2] \in EXT /\ gv.edge[e] = "DEF"
                                THEN "EDGs" ELSE gv.edge[e]
  BY DEF ColorSourceEdges, Source
<1>5. \A e \in g.edges : gv.edge[e] = IF e[2] \in T /\ e[1] = s THEN "EDGt"
                                      ELSE IF e[2] \in T /\ e[1] \in I THEN "EDGs" ELSE "DEF"
  BY DEF EdgeColors
<1>6. s \notin I /\ N \subseteq EXT /\ N \subseteq I
  <2>1. s \in I => <<s, s>> \in g.edges
    BY IndFacts
  <2>2. <<s, s>>[1] = <<s, s>>[2]
    OBVIOUS
  <2>. QED
    BY <2>1, <2>2 DEF LoopFree, Inner
<1>7. \A e : e \in Paths(g) <=> e \in Direct(g) \/ e \in First(g) \/ e \in Second(g)
  BY DEF Paths
<1>8. \A p \in DOMAIN g.nodes : gv.node[p] = IF p = s THEN "NODs"
                                             ELSE IF p \in T /\ Reached(g, p) THEN "NODt"
                                             ELSE IF p \in N THEN "NODi" ELSE "DEF"
  BY DEF NodeColors
<1>9. \A p \in I : Reached(g, p)
  BY DEF Reached
<1> HIDE DEF s, I, T, N, F, f
<1>10. \A e \in Paths(g) : F.edge[e] = f[e] /\ e \in g.edges
  BY <1>1, <1>2, <1>3, <1>7
<1>11. \A e \in Paths(g) : f[e] = IF e \in Direct(g) THEN "EDGt" ELSE "EDGs"
  BY <1>1, <1>4, <1>5, <1>6, <1>7
<1>12. \A p \in Ends(Paths(g)) :
         F.node[p] = IF g.nodes[p] = VER THEN "NODs" ELSE IF p \in T THEN "NODt" ELSE "NODi"
  <2>1. SUFFICES ASSUME NEW p \in Ends(Paths(g))
                 PROVE  F.node[p] = IF g.nodes[p] = VER THEN "NODs"
                                    ELSE IF p \in T THEN "NODt" ELSE "NODi"
    OBVIOUS
  <2>2. p \in DOMAIN g.nodes /\ (p = s \/ (p \in T /\ Reached(g, p)) \/ p \in N)
    BY <1>1, <2>1
  <2>3. F.node[p] = gv.node[p]
    BY <1>2, <1>3, <2>1
  <2>. QED
    BY <1>1, <1>6, <1>8, <1>9, <2>2, <2>3
<1>. QED
  BY <1>10, <1>11, <1>12 DEF T, F

\* The positions of the targets that this channel's loop has visited.
Visited(g) == {p \in Targets(g) : g.nodes[p] \notin lts}

\* The gv file gv of graph g as the loop over the targets leaves it; only those positions
\* are in EXT that this channel or an earlier one has put there.
Painted(g, gv) ==
  /\ VER \in Range(g.nodes) /\ lts \subseteq capture_lts(g)
  /\ EdgeColors(g, gv, Visited(g)) /\ NodesShown(g, gv, Visited(g))
  /\ Inner(g, Visited(g)) \subseteq EXT
  /\ RES = <<>> => EXT \subseteq Inner(g, Visited(g))

\* The colours of its nodes; the targets visited are later than those to come.
Told(g, gv) ==
  /\ NodeColors(g, gv, Visited(g))
  /\ \A p \in Visited(g) : \A v \in lts : v < g.nodes[p]

\* json2gv colours the source and nothing else.
LEMMA NothingColored ==
  ASSUME NEW g \in Graphs, VER \in Range(g.nodes), MOD # "4.x"
  PROVE  /\ EdgeColors(g, json2gv(g), {}) /\ NodesShown(g, json2gv(g), {})
         /\ NodeColors(g, json2gv(g), {}) /\ Inner(g, {}) = {}
<1> DEFINE n == json2gv(g).node
           e == json2gv(g).edge
<1>1. /\ n = [p \in DOMAIN g.nodes |-> IF MOD # "4.x" /\ g.nodes[p] = VER THEN "NODs" ELSE "DEF"]
      /\ e = [d \in g.edges |-> "DEF"]
  BY DEF json2gv
<1>2. \A p \in DOMAIN g.nodes : g.nodes[p] = VER <=> p = Source(g)
  BY PositionFacts DEF Source
<1>3. Inner(g, {}) = {}
  BY DEF Inner
<1> HIDE DEF n, e
<1>4. /\ DOMAIN n = DOMAIN g.nodes
      /\ \A p \in DOMAIN g.nodes : n[p] = IF p = Source(g) THEN "NODs" ELSE "DEF"
  BY <1>1, <1>2
<1>5. DOMAIN e = g.edges /\ \A d \in g.edges : e[d] = "DEF"
  BY <1>1
<1>. QED
  BY <1>3, <1>4, <1>5 DEF EdgeColors, NodesShown, NodeColors, n, e

\* A target is at its position.
LEMMA TargetFacts ==
  ASSUME NEW g \in Graphs, NEW target \in capture_lts(g)
  PROVE  Position(g, target) \in Targets(g) /\ g.nodes[Position(g, target)] = target
BY PositionFacts DEF capture_lts, Targets

\* The loop over the targets begins.
LEMMA PaintingStarts ==
  ASSUME NEW g \in Graphs, NEW gv, gv = json2gv(g), MOD # "4.x",
         VER \in Range(g.nodes), lts' = capture_lts(g), UNCHANGED <<TRG, EXT, RES>>,
         RES = <<>> => EXT = {}
  PROVE  Painted(g, gv)' /\ Told(g, gv)'
<1>1. Visited(g)' = {}
  BY PositionFacts DEF Visited, Targets, capture_lts
<1>2. capture_lts(g)' = capture_lts(g)
  BY DEF capture_lts
<1>. QED
  BY <1>1, <1>2, NothingColored DEF Painted, Told

\* The loop visits the target.
LEMMA PaintingVisits ==
  ASSUME NEW g \in Graphs, NEW target \in lts, lts \subseteq capture_lts(g),
         lts' = lts \ {target}, UNCHANGED TRG
  PROVE  LET t == Position(g, target)
         IN Visited(g)' = Visited(g) \cup {t} /\ t \in DOMAIN g.nodes \ Visited(g)
<1> DEFINE t == Position(g, target)
<1>1. t \in Targets(g) /\ g.nodes[t] = target /\ t \in DOMAIN g.nodes
  BY TargetFacts DEF Targets
<1>2. \A p \in Targets(g) : g.nodes[p] = target <=> p = t
  BY <1>1, PositionFacts DEF Targets
<1>3. Targets(g)' = Targets(g)
  BY DEF Targets
<1> HIDE DEF t
<1>4. Visited(g)' = {p \in Targets(g) : g.nodes[p] \notin lts \ {target}}
  BY <1>3 DEF Visited
<1>5. Visited(g)' = Visited(g) \cup {t}
  BY <1>1, <1>2, <1>4 DEF Visited
<1>6. t \notin Visited(g)
  BY <1>1 DEF Visited
<1>. QED
  BY <1>1, <1>5, <1>6 DEF t

\* Painted holds after the visit.
LEMMA PaintedStep ==
  ASSUME LoopFree, NEW g \in Graphs, NEW gv, Painted(g, gv), NEW target \in lts,
         NEW gw, gw = Colors(g, gv, Position(g, target)), lts' = lts \ {target},
         EXT' = EXT \cup Indirect(g, gv, Position(g, target)), UNCHANGED <<TRG, RES>>
  PROVE  Painted(g, gw)'
<1> DEFINE t == Position(g, target)
           D == Visited(g)
<1>1. Visited(g)' = D \cup {t} /\ t \in DOMAIN g.nodes /\ t \notin D
  BY PaintingVisits DEF Painted
<1>2. EdgeColors(g, gv, D) /\ NodesShown(g, gv, D) /\ VER \in Range(g.nodes)
  BY DEF Painted
<1>3. /\ EdgeColors(g, gw, D \cup {t}) /\ NodesShown(g, gw, D \cup {t})
      /\ Indirect(g, gv, t) = Via(g, t)
  BY <1>1, <1>2, EdgesColored, NodesColored
<1>4. Inner(g, D \cup {t}) = Inner(g, D) \cup Via(g, t)
  BY DEF Inner, Via
<1>5. capture_lts(g)' = capture_lts(g) /\ lts' \subseteq capture_lts(g)
  BY DEF capture_lts, Painted
<1>6. Inner(g, D) \subseteq EXT /\ (RES = <<>> => EXT \subseteq Inner(g, D))
  BY DEF Painted
<1>7. EXT' = EXT \cup Via(g, t)
  BY <1>3
<1> HIDE DEF t, D
<1>. QED
  BY <1>1, <1>2, <1>3, <1>4, <1>5, <1>6, <1>7 DEF Painted

\* Told holds after the visit, when the target is the latest.
LEMMA ToldStep ==
  ASSUME Ascending, NEW g \in Graphs, NEW gv, Painted(g, gv), Told(g, gv), NEW target \in lts,
         LatestFirst(target),
         NEW gw, gw = Colors(g, gv, Position(g, target)), lts' = lts \ {target}, UNCHANGED TRG
  PROVE  Told(g, gw)'
<1> DEFINE t == Position(g, target)
           D == Visited(g)
<1>1. Visited(g)' = D \cup {t} /\ t \in DOMAIN g.nodes /\ t \notin D
  BY PaintingVisits DEF Painted
<1>2. /\ EdgeColors(g, gv, D) /\ NodesShown(g, gv, D) /\ NodeColors(g, gv, D)
      /\ VER \in Range(g.nodes)
      /\ D \subseteq DOMAIN g.nodes /\ \A p \in D : \A v \in lts : v < g.nodes[p]
  BY DEF Painted, Told, Visited, Targets
<1>3. g.nodes[t] = target
  BY TargetFacts DEF Painted
<1>4. \A p \in D : g.nodes[t] < g.nodes[p]
  BY <1>2, <1>3
<1> HIDE DEF t, D
<1>5. NodeColors(g, gw, D \cup {t})
  BY <1>1, <1>2, <1>4, NodesTold DEF t
<1>6. \A v \in lts' : v < g.nodes[t]
  <2>1. \A v \in lts : v \in Nat /\ v <= target
    BY GraphsAssumption, EmptyFacts DEF LatestFirst, Painted, capture_lts
  <2>2. \A v \in lts' : v \in Nat /\ v <= target /\ v # target
    BY <2>1
  <2>3. target \in Nat
    BY <2>1
  <2>. QED
    BY <1>3, <2>2, <2>3
<1>7. \A p \in D \cup {t} : \A v \in lts' : v < g.nodes[p]
  BY <1>2, <1>6
<1>. QED
  BY <1>1, <1>5, <1>7 DEF Told

\* What PathsDrawn, FirstDrawingExact and ColorsTell say of the drawing of channel c.
ShownAt(c) ==
  LET g == file[c]
  IN /\ DOMAIN gvs[c].node = {Source(g)} \cup Ends(Paths(g))
     /\ Paths(g) \subseteq DOMAIN gvs[c].edge
     /\ \A e \in DOMAIN gvs[c].edge \ Paths(g) : e[1] = Source(g)

ExactAt(c) == DOMAIN gvs[c].edge = Paths(file[c])

ToldAt(c) ==
  LET g == file[c] d == gvs[c]
  IN /\ \A e \in Paths(g) : d.edge[e] = IF e \in Direct(g) THEN "EDGt" ELSE "EDGs"
     /\ \A p \in Ends(Paths(g)) : d.node[p] = IF g.nodes[p] = VER THEN "NODs"
                                              ELSE IF p \in Targets(g) THEN "NODt" ELSE "NODi"

\* A channel whose gv file is left alone shows what it showed.
LEMMA AtKept ==
  ASSUME NEW c, TRG' = TRG, file'[c] = file[c], gvs'[c] = gvs[c]
  PROVE  /\ ShownAt(c) => ShownAt(c)'
         /\ ExactAt(c) => ExactAt(c)'
         /\ ToldAt(c) => ToldAt(c)'
<1>1. Targets(file[c])' = Targets(file[c])
  BY DEF Targets
<1>2. Direct(file[c])' = Direct(file[c]) /\ Second(file[c])' = Second(file[c])
  BY <1>1 DEF Direct, Second
<1>3. First(file[c])' = First(file[c])
  BY <1>2 DEF First
<1>4. Paths(file[c])' = Paths(file[c])
  BY <1>2, <1>3 DEF Paths
<1>5. Ends(Paths(file[c]))' = Ends(Paths(file[c])) /\ Source(file[c])' = Source(file[c])
  BY <1>4 DEF Ends, Source
<1>6. ShownAt(c) => ShownAt(c)'
  BY <1>4, <1>5 DEF ShownAt
<1>7. ExactAt(c) => ExactAt(c)'
  BY <1>4 DEF ExactAt
<1>8. ToldAt(c) => ToldAt(c)'
  BY <1>1, <1>2, <1>4, <1>5 DEF ToldAt
<1>. QED
  BY <1>6, <1>7, <1>8

\* A channel shows its paths when its loop ends.
LEMMA ChannelShown ==
  ASSUME NEW g \in Graphs, NEW gv, Painted(g, gv), lts = {}, NEW c, TRG' = TRG,
         file'[c] = g, gvs'[c] = Finished(g, gv)
  PROVE  ShownAt(c)' /\ (RES = <<>> => ExactAt(c)')
<1>1. Visited(g) = Targets(g)
  BY DEF Visited
<1>2. Targets(g)' = Targets(g)
  BY DEF Targets
<1>3. Direct(g)' = Direct(g) /\ Second(g)' = Second(g)
  BY <1>2 DEF Direct, Second
<1>4. First(g)' = First(g)
  BY <1>3 DEF First
<1>5. Paths(g)' = Paths(g)
  BY <1>3, <1>4 DEF Paths
<1>6. /\ DOMAIN Finished(g, gv).node = {Source(g)} \cup Ends(Paths(g))
      /\ Paths(g) \subseteq DOMAIN Finished(g, gv).edge
      /\ \A e \in DOMAIN Finished(g, gv).edge \ Paths(g) : e[1] = Source(g)
      /\ RES = <<>> => DOMAIN Finished(g, gv).edge = Paths(g)
  BY <1>1, FinishedShown DEF Painted
<1> DEFINE f == Finished(g, gv)
<1>7. gvs'[c] = f
  OBVIOUS
<1> HIDE DEF f
<1>8. Paths(file[c])' = Paths(g) /\ Source(file[c])' = Source(g)
  BY <1>5
<1>9. Ends(Paths(file[c]))' = Ends(Paths(g))
  BY <1>8 DEF Ends
<1>. QED
  BY <1>6, <1>7, <1>8, <1>9 DEF ShownAt, ExactAt, f

\* Its colours tell the paths apart.
LEMMA ChannelTold ==
  ASSUME LoopFree, NEW g \in Graphs, NEW gv, Painted(g, gv), Told(g, gv), lts = {}, NEW c,
         TRG' = TRG, file'[c] = g, gvs'[c] = Finished(g, gv)
  PROVE  ToldAt(c)'
<1>1. Visited(g) = Targets(g)
  BY DEF Visited
<1>2. Targets(g)' = Targets(g)
  BY DEF Targets
<1>3. Direct(g)' = Direct(g) /\ Second(g)' = Second(g)
  BY <1>2 DEF Direct, Second
<1>4. First(g)' = First(g)
  BY <1>3 DEF First
<1>5. Paths(g)' = Paths(g)
  BY <1>3, <1>4 DEF Paths
<1> DEFINE f == Finished(g, gv)
<1>6. /\ \A e \in Paths(g) : f.edge[e] = IF e \in Direct(g) THEN "EDGt" ELSE "EDGs"
      /\ \A p \in Ends(Paths(g)) : f.node[p] = IF g.nodes[p] = VER THEN "NODs"
                                               ELSE IF p \in Targets(g) THEN "NODt" ELSE "NODi"
  BY <1>1, FinishedTold DEF Painted, Told
<1>7. gvs'[c] = f
  OBVIOUS
<1> HIDE DEF f
<1>8. /\ Paths(file[c])' = Paths(g) /\ Direct(file[c])' = Direct(g)
      /\ Targets(file[c])' = Targets(g)
  BY <1>2, <1>3, <1>5
<1>9. Ends(Paths(file[c]))' = Ends(Paths(g))
  BY <1>8 DEF Ends
<1>. QED
  BY <1>6, <1>7, <1>8, <1>9 DEF ToldAt

\* The channel that is coloured is neither one of those to come nor a result.
LEMMA ColoringFacts ==
  ASSUME TypeInv, FlowInv, phase \in Coloring, todo # <<>>
  PROVE  LET h == Head(todo)
         IN /\ h \in Channels /\ file[h] \in Graphs /\ MOD # "4.x" /\ exported = {}
            /\ Range(todo) = {h} \cup Range(Tail(todo)) /\ Range(todo) \subseteq Channels
            /\ Range(RES) \subseteq Channels /\ h \notin Range(Tail(todo)) /\ h \notin Range(RES)
            /\ Range(Tail(todo)) \cap Range(RES) = {}
            /\ Append(RES, h) # <<>> /\ Range(Append(RES, h)) = Range(RES) \cup {h}
            /\ Append(RES, h)[1] = IF RES = <<>> THEN h ELSE RES[1]
            /\ RES # <<>> => RES[1] \in Range(RES)
<1> DEFINE h == Head(todo)
<1>1. todo \in Seq(Channels) /\ RES \in Seq(Channels)
  BY DEF TypeInv, TypeOK, Channels
<1>2. h \in Channels /\ Range(todo) = {h} \cup Range(Tail(todo))
  BY <1>1, TailFacts
<1>3. /\ MOD # "4.x" /\ exported = {} /\ IsInjective(todo) /\ Range(todo) \cap Range(RES) = {}
      /\ Range(todo) \subseteq Range(CHA) /\ \A c \in Range(CHA) : file[c] \in Graphs
  BY DEF FlowInv, ColoringInv
<1>4. h \notin Range(Tail(todo))
  BY <1>1, <1>3, TailFacts
<1>5. Range(todo) \subseteq Channels /\ Range(RES) \subseteq Channels
  BY <1>1, EmptyFacts
<1>6. RES # <<>> => RES[1] \in Range(RES)
  <2>1. RES # <<>> => 1 \in DOMAIN RES
    BY <1>1
  <2>. QED
    BY <2>1 DEF Range
<1> HIDE DEF h
<1>7. /\ Append(RES, h) # <<>> /\ Range(Append(RES, h)) = Range(RES) \cup {h}
      /\ Append(RES, h)[1] = IF RES = <<>> THEN h ELSE RES[1]
  BY <1>1, <1>2, AppendFacts
<1>. QED
  BY <1>2, <1>3, <1>4, <1>5, <1>6, <1>7 DEF h

\* The steps before the gv files are written.
Fetches == \/ check_prereq \/ check_release \/ FetchChannel \/ FetchFails \/ ChannelsFetched
           \/ Retarget \/ NoChannels \/ WriteFails

\* None of them has drawn or exported anything.
LEMMA FetchesFacts ==
  ASSUME FlowInv, Fetches
  PROVE  /\ phase \in Unwritten /\ phase' \in Unwritten \cup {"exit 1"}
         /\ EXT' = EXT /\ exported = {} /\ exported' = {}
<1>1. /\ phase \in Unwritten /\ phase' \in Unwritten \cup {"exit 1"}
      /\ EXT' = EXT /\ exported' = exported
  BY DEF Fetches, check_prereq, check_release, FetchChannel, FetchFails, ChannelsFetched, Retarget,
         NoChannels, WriteFails, Unwritten
<1>2. exported = {}
  BY <1>1 DEF FlowInv, FetchInv, WriteInv, Fetching, Unwritten
<1>. QED
  BY <1>1, <1>2

\* Before its turn a channel's gv file is what json2gv has written, and EXT is empty
\* until the first result.
UntouchedInv ==
  /\ phase \in Unwritten \/ (phase = "colorize" /\ RES = <<>>) => EXT = {}
  /\ phase = "colorize" => \A c \in Range(todo) : gvs[c] = json2gv(file[c])
  /\ phase = "targets" => \A c \in Range(Tail(todo)) : gvs[c] = json2gv(file[c])

\* UntouchedInv is inductive.
LEMMA UntouchedStep == TypeInv /\ FlowInv /\ UntouchedInv /\ [Next]_vars => UntouchedInv'
<1> SUFFICES ASSUME TypeInv, FlowInv, UntouchedInv, [Next]_vars PROVE UntouchedInv'
  OBVIOUS
<1>0. "colorize" \in Coloring /\ "targets" \in Coloring /\ "colorize" \notin Unwritten
      /\ "targets" \notin Unwritten /\ "exit 1" \notin Unwritten
      /\ "draw" \notin Unwritten /\ "done" \notin Unwritten
  BY DEF Coloring, Unwritten
<1>a. ASSUME MOD' = MOD, file' = file PROVE \A c : json2gv(file[c])' = json2gv(file[c])
  BY <1>a DEF json2gv
<1>1. CASE UNCHANGED vars
  <2>1. \A c : json2gv(file[c])' = json2gv(file[c])
    BY <1>1, <1>a DEF vars
  <2>. QED
    BY <1>1, <2>1 DEF vars, UntouchedInv
<1>2. CASE Fetches
  BY <1>0, <1>2, FetchesFacts DEF UntouchedInv
<1>3. CASE WriteFiles
  <2>1. /\ todo' = CHA /\ UNCHANGED <<MOD, file, EXT>>
        /\ phase = "json2gv" /\ phase' \in {"draw", "colorize"}
        /\ gvs' = [c \in Channels |->
                     IF c \in Range(CHA) THEN json2gv(file[c]) ELSE gvs[c]]
    BY <1>3 DEF WriteFiles, Channels
  <2>2. Range(CHA) \subseteq Channels
    BY EmptyFacts DEF TypeInv, TypeOK, Channels
  <2>3. \A c \in Range(CHA) : gvs'[c] = json2gv(file[c])'
    BY <1>a, <2>1, <2>2
  <2>4. phase \in Unwritten
    BY <2>1 DEF Unwritten
  <2>. QED
    BY <1>0, <2>1, <2>3, <2>4 DEF UntouchedInv
<1>4. CASE SkipChannel \/ StartChannel
  <2>1. /\ phase = "colorize" /\ todo # <<>> /\ UNCHANGED <<MOD, file, RES, EXT, gvs>>
        /\ \/ phase' = "colorize" /\ todo' = Tail(todo)
           \/ phase' = "targets" /\ todo' = todo
    BY <1>4 DEF SkipChannel, StartChannel
  <2>2. \A c \in Range(Tail(todo)) : c \in Range(todo)
    BY <1>0, <2>1, ColoringFacts
  <2>3. \A c : json2gv(file[c])' = json2gv(file[c])
    BY <1>a, <2>1
  <2>. QED
    BY <1>0, <2>1, <2>2, <2>3 DEF UntouchedInv
<1>5. CASE ColorTarget \/ FinishChannel
  <2> DEFINE h == Head(todo)
             t == Tail(todo)
  <2>1. /\ phase = "targets" /\ UNCHANGED <<MOD, file>>
        /\ \/ phase' = "targets" /\ todo' = todo
           \/ phase' = "colorize" /\ todo' = t /\ RES' = Append(RES, h)
    BY <1>5 DEF ColorTarget, FinishChannel
  <2>2. todo # <<>> /\ gvs = [c \in Channels |-> gvs[c]]
    BY <2>1 DEF TypeInv
  <2>3. h \notin Range(t) /\ Append(RES, h) # <<>> /\ Range(t) \subseteq Channels
    BY <1>0, <2>1, <2>2, ColoringFacts
  <2>4. \A c \in Channels \ {h} : gvs'[c] = gvs[c]
    <3>1. PICK x : gvs' = [gvs EXCEPT ![h] = x]
      BY <1>5, Zenon DEF ColorTarget, FinishChannel
    <3> HIDE DEF h
    <3>. QED
      BY <2>2, <3>1
  <2>5. \A c \in Range(t) : gvs'[c] = json2gv(file[c])'
    BY <1>a, <2>1, <2>3, <2>4 DEF UntouchedInv
  <2>. QED
    BY <1>0, <2>1, <2>3, <2>5 DEF UntouchedInv
<1>6. CASE Colorized \/ draw
  <2>1. phase' \in {"draw", "done", "exit 1"}
    BY <1>6 DEF Colorized, draw
  <2>. QED
    BY <1>0, <2>1 DEF UntouchedInv
<1>. QED
  BY <1>1, <1>2, <1>3, <1>4, <1>5, <1>6 DEF Next, Fetches

\* The loop's channel is painted, and the results and what is exported show their paths;
\* the first result nothing else.
PaintInv ==
  /\ phase = "targets" => Painted(file[Head(todo)], gvs[Head(todo)])
  /\ phase \in Coloring \cup Drawing /\ MOD # "4.x" =>
       (\A c \in Range(RES) : ShownAt(c)) /\ (RES # <<>> => ExactAt(RES[1]))
  /\ MOD # "4.x" => \A c \in exported : ShownAt(c)

\* What Painted says of the channel that comes next.
LEMMA NextPainted ==
  ASSUME NEW g, NEW gv, Painted(g, gv)', file'[Head(todo')] = g, gvs'[Head(todo')] = gv
  PROVE  Painted(file[Head(todo)], gvs[Head(todo)])'
BY DEF Painted, Visited, Targets, capture_lts

\* Only results are exported.
LEMMA ExportsResults ==
  ASSUME TypeInv, FlowInv, Colorized \/ draw
  PROVE  \A c \in exported' : c \in exported \/ c \in Range(RES)
<1>1. CASE exported' = exported
  BY <1>1
<1>2. CASE phase = "draw" /\ todo # <<>> /\ exported' = exported \cup {Head(todo)}
  <2>1. Range(todo) \subseteq Range(RES)
    BY <1>2 DEF FlowInv, DrawingInv, Drawing
  <2>2. Head(todo) \in Range(todo)
    BY <1>2, TailFacts DEF TypeInv, TypeOK
  <2>. QED
    BY <1>2, <2>1, <2>2
<1>. QED
  BY <1>1, <1>2 DEF Colorized, draw

\* PaintInv is inductive.
LEMMA PaintStep ==
  ASSUME LoopFree
  PROVE  TypeInv /\ FlowInv /\ UntouchedInv /\ PaintInv /\ [Next]_vars => PaintInv'
<1> SUFFICES ASSUME TypeInv, FlowInv, UntouchedInv, PaintInv, [Next]_vars PROVE PaintInv'
  OBVIOUS
<1>0. /\ "colorize" \in Coloring /\ "targets" \in Coloring /\ "draw" \in Drawing
      /\ \A p \in Unwritten \cup {"exit 1"} : p \notin Coloring \cup Drawing /\ p # "targets"
      /\ \A p \in Drawing : p # "targets"
  BY DEF Coloring, Unwritten, Drawing
<1>1. CASE UNCHANGED vars
  <2> PICK g, gv : g = file[Head(todo)] /\ gv = gvs[Head(todo)]
    OBVIOUS
  <2>1. Painted(g, gv) => Painted(g, gv)'
    BY <1>1 DEF vars, Painted, Visited, Targets, capture_lts
  <2>2. phase' = "targets" => Painted(file[Head(todo)], gvs[Head(todo)])'
    BY <1>1, <2>1, NextPainted DEF vars, PaintInv
  <2>3. \A c : (ShownAt(c) => ShownAt(c)') /\ (ExactAt(c) => ExactAt(c)')
    BY <1>1, AtKept DEF vars
  <2>4. PICK r : r = RES[1]
    OBVIOUS
  <2>5. UNCHANGED <<phase, MOD, RES, exported>> /\ r = RES'[1]
    BY <1>1, <2>4 DEF vars
  <2>6. phase \in Coloring \cup Drawing /\ MOD # "4.x" /\ RES # <<>> => ExactAt(r)'
    BY <2>3, <2>4 DEF PaintInv, ExactAt
  <2>7. phase' \in Coloring \cup Drawing /\ MOD' # "4.x" /\ RES' # <<>> => ExactAt(RES[1])'
    BY <2>5, <2>6 DEF ExactAt
  <2>8. phase' \in Coloring \cup Drawing /\ MOD' # "4.x" => \A c \in Range(RES') : ShownAt(c)'
    BY <2>3, <2>5 DEF PaintInv
  <2>9. MOD' # "4.x" => \A c \in exported' : ShownAt(c)'
    BY <2>3, <2>5 DEF PaintInv
  <2>. QED
    BY <2>2, <2>7, <2>8, <2>9 DEF PaintInv
<1>2. CASE Fetches
  BY <1>0, <1>2, FetchesFacts DEF PaintInv
<1>3. CASE WriteFiles
  <2>1. /\ phase = "json2gv" /\ exported' = exported
        /\ \/ phase' = "draw" /\ MOD' = "4.x"
           \/ phase' = "colorize" /\ RES' = <<>>
    BY <1>3 DEF WriteFiles
  <2>2. exported = {}
    BY <2>1 DEF FlowInv, WriteInv
  <2>. QED
    BY <1>0, <2>1, <2>2, EmptyFacts DEF PaintInv
<1>4. CASE SkipChannel \/ StartChannel
  <2>1. /\ phase = "colorize" /\ todo # <<>>
        /\ UNCHANGED <<MOD, TRG, file, RES, EXT, gvs, exported>>
        /\ \/ phase' = "colorize"
           \/ /\ phase' = "targets" /\ todo' = todo
              /\ VER \in Range(file[Head(todo)].nodes) /\ lts' = capture_lts(file[Head(todo)])
    BY <1>4 DEF SkipChannel, StartChannel
  <2>2. phase' = "targets" => Painted(file[Head(todo)], gvs[Head(todo)])'
    <3> SUFFICES ASSUME phase' = "targets" PROVE Painted(file[Head(todo)], gvs[Head(todo)])'
      OBVIOUS
    <3>1. PICK g, gv : g = file[Head(todo)] /\ gv = gvs[Head(todo)]
      OBVIOUS
    <3>2. g \in Graphs /\ MOD # "4.x" /\ Head(todo) \in Range(todo)
      BY <1>0, <2>1, <3>1, ColoringFacts
    <3>3. gv = json2gv(g) /\ (RES = <<>> => EXT = {})
      BY <2>1, <3>1, <3>2 DEF UntouchedInv
    <3>4. Painted(g, gv)'
      BY <1>0, <2>1, <3>1, <3>2, <3>3, PaintingStarts
    <3>. QED
      BY <1>0, <2>1, <3>1, <3>4, NextPainted
  <2>3. \A c : (ShownAt(c) => ShownAt(c)') /\ (ExactAt(c) => ExactAt(c)')
    BY <2>1, AtKept
  <2>4. PICK r : r = RES[1]
    OBVIOUS
  <2>5. RES # <<>> => ExactAt(r)'
    BY <1>0, <2>1, <2>3, <2>4, ColoringFacts DEF PaintInv, ExactAt
  <2>. QED
    BY <1>0, <2>1, <2>2, <2>3, <2>4, <2>5, ColoringFacts DEF PaintInv, ExactAt
<1>5. CASE ColorTarget
  <2>1. PICK target, h, g, gv, gw :
          /\ target \in lts /\ h = Head(todo) /\ g = file[h] /\ gv = gvs[h]
          /\ gw = Colors(g, gv, Position(g, target)) /\ gvs' = [gvs EXCEPT ![h] = gw]
          /\ EXT' = EXT \cup Indirect(g, gv, Position(g, target)) /\ lts' = lts \ {target}
    BY <1>5 DEF ColorTarget
  <2>2. phase = "targets" /\ UNCHANGED <<MOD, phase, TRG, todo, file, CHA, RES, exported>>
    BY <1>5 DEF ColorTarget
  <2>3. todo # <<>> /\ gvs = [c \in Channels |-> gvs[c]]
    BY <2>2 DEF TypeInv
  <2>4. /\ h \in Channels /\ g \in Graphs /\ MOD # "4.x" /\ exported = {} /\ h \notin Range(RES)
        /\ Range(RES) \subseteq Channels /\ (RES # <<>> => RES[1] \in Range(RES))
    BY <1>0, <2>1, <2>2, <2>3, ColoringFacts
  <2>5. gvs'[h] = gw /\ \A c \in Channels \ {h} : gvs'[c] = gvs[c]
    BY <2>1, <2>3, <2>4
  <2>6. Painted(g, gv)
    BY <2>1, <2>2 DEF PaintInv
  <2>7. Painted(g, gw)'
    BY <2>1, <2>2, <2>4, <2>6, PaintedStep
  <2>8. Painted(file[Head(todo)], gvs[Head(todo)])'
    BY <2>1, <2>2, <2>5, <2>7, NextPainted
  <2>9. \A c \in Range(RES) : (ShownAt(c) => ShownAt(c)') /\ (ExactAt(c) => ExactAt(c)')
    BY <2>2, <2>4, <2>5, AtKept
  <2>10. PICK r : r = RES[1]
    OBVIOUS
  <2>11. RES # <<>> => ExactAt(r)'
    BY <1>0, <2>2, <2>4, <2>9, <2>10 DEF PaintInv, ExactAt
  <2>. QED
    BY <1>0, <2>2, <2>4, <2>8, <2>9, <2>10, <2>11 DEF PaintInv, ExactAt
<1>6. CASE FinishChannel
  <2>1. PICK h, g, gv :
          /\ h = Head(todo) /\ g = file[h] /\ gv = gvs[h]
          /\ gvs' = [gvs EXCEPT ![h] = Finished(g, gv)] /\ RES' = Append(RES, h)
    BY <1>6 DEF FinishChannel, Finished
  <2>2. /\ phase = "targets" /\ phase' = "colorize" /\ lts = {}
        /\ UNCHANGED <<MOD, TRG, file, exported>>
    BY <1>6 DEF FinishChannel
  <2>3. todo # <<>> /\ gvs = [c \in Channels |-> gvs[c]]
    BY <2>2 DEF TypeInv
  <2>4. /\ h \in Channels /\ g \in Graphs /\ MOD # "4.x" /\ exported = {} /\ h \notin Range(RES)
        /\ Range(RES) \subseteq Channels /\ (RES # <<>> => RES[1] \in Range(RES))
        /\ Range(RES') = Range(RES) \cup {h} /\ RES'[1] = IF RES = <<>> THEN h ELSE RES[1]
    BY <1>0, <2>1, <2>2, <2>3, ColoringFacts
  <2>5. gvs'[h] = Finished(g, gv) /\ \A c \in Channels \ {h} : gvs'[c] = gvs[c]
    BY <2>1, <2>3, <2>4
  <2>6. Painted(g, gv)
    BY <2>1, <2>2 DEF PaintInv
  <2>7. ShownAt(h)' /\ (RES = <<>> => ExactAt(h)')
    BY <2>1, <2>2, <2>4, <2>5, <2>6, ChannelShown
  <2>8. \A c \in Range(RES) : (ShownAt(c) => ShownAt(c)') /\ (ExactAt(c) => ExactAt(c)')
    BY <2>2, <2>4, <2>5, AtKept
  <2>9. PICK r : r = RES[1]
    OBVIOUS
  <2>10. RES # <<>> => ExactAt(r)'
    BY <1>0, <2>2, <2>4, <2>8, <2>9 DEF PaintInv, ExactAt
  <2>11. \A c \in Range(RES') : ShownAt(c)'
    BY <1>0, <2>2, <2>4, <2>7, <2>8 DEF PaintInv
  <2>12. ExactAt(RES[1])'
    BY <2>4, <2>7, <2>9, <2>10 DEF ExactAt
  <2>. QED
    BY <1>0, <2>2, <2>4, <2>11, <2>12 DEF PaintInv
<1>7. CASE Colorized \/ draw
  <2>1. /\ phase \in Coloring \cup Drawing /\ phase' \in {"draw", "done", "exit 1"}
        /\ UNCHANGED <<MOD, TRG, file, RES, gvs>>
    BY <1>7 DEF Colorized, draw, Coloring, Drawing
  <2>2. \A c : (ShownAt(c) => ShownAt(c)') /\ (ExactAt(c) => ExactAt(c)')
    BY <2>1, AtKept
  <2>3. PICK r : r = RES[1]
    OBVIOUS
  <2>4. RES # <<>> /\ MOD # "4.x" => ExactAt(r)'
    BY <2>1, <2>2, <2>3 DEF PaintInv, ExactAt
  <2>5. \A c \in exported' : c \in exported \/ c \in Range(RES)
    BY <1>7, ExportsResults
  <2>. QED
    BY <1>0, <2>1, <2>2, <2>3, <2>4, <2>5 DEF PaintInv, ExactAt
<1>. QED
  BY <1>1, <1>2, <1>3, <1>4, <1>5, <1>6, <1>7 DEF Next, Fetches

\* PaintInv and UntouchedInv hold at first.
LEMMA PaintInit == Init => UntouchedInv /\ PaintInv
BY DEF Init, UntouchedInv, PaintInv, Unwritten, Coloring, Drawing

\* When no release can be upgraded to itself, a drawing shows the source and the nodes of
\* the paths of one or two hops to the target minor, and no other; no edge of a path is
\* missing, and the other edges start at the source.
THEOREM DrawingsShowPaths ==
  ASSUME LoopFree
  PROVE  Spec => []PathsDrawn
<1>1. PaintInv => PathsDrawn
  BY DEF PaintInv, PathsDrawn, Exported, ShownAt, Source
<1>. QED
  BY <1>1, TypeInit, TypeStep, FlowInit, FlowStep, PaintInit, UntouchedStep, PaintStep, PTL DEF Spec

\* And the first drawing shows no other edges.
THEOREM FirstIsExact ==
  ASSUME LoopFree
  PROVE  Spec => []FirstDrawingExact
<1>1. FlowInv /\ PaintInv => FirstDrawingExact
  BY DEF FlowInv, DrawingInv, PaintInv, FirstDrawingExact, ExactAt, Drawing
<1>. QED
  BY <1>1, TypeInit, TypeStep, FlowInit, FlowStep, PaintInit, UntouchedStep, PaintStep, PTL DEF Spec

\* Where upgrades lead to later releases, no release can be upgraded to itself.
LEMMA NoLoops == Ascending => LoopFree
<1> SUFFICES ASSUME Ascending, NEW g \in Graphs, NEW e \in g.edges PROVE e[1] # e[2]
  BY DEF LoopFree
<1>1. g.nodes[e[1]] \in Nat /\ g.nodes[e[1]] < g.nodes[e[2]]
  BY EdgeFacts, GraphsAssumption DEF Ascending
<1>. QED
  BY <1>1

\* The loop's channel, the results and what is exported have the colours of their paths.
ToldInv ==
  /\ phase = "targets" => Told(file[Head(todo)], gvs[Head(todo)])
  /\ phase \in Coloring \cup Drawing /\ MOD # "4.x" => \A c \in Range(RES) : ToldAt(c)
  /\ MOD # "4.x" => \A c \in exported : ToldAt(c)

\* What Told says of the channel that comes next.
LEMMA NextTold ==
  ASSUME NEW g, NEW gv, Told(g, gv)', file'[Head(todo')] = g, gvs'[Head(todo')] = gv
  PROVE  Told(file[Head(todo)], gvs[Head(todo)])'
BY DEF Told, Visited, Targets, capture_lts

\* ToldInv is inductive.
LEMMA ToldInvStep ==
  ASSUME Ascending
  PROVE  TypeInv /\ FlowInv /\ UntouchedInv /\ PaintInv /\ ToldInv /\ [Next]_vars => ToldInv'
<1> SUFFICES ASSUME TypeInv, FlowInv, UntouchedInv, PaintInv, ToldInv, [Next]_vars PROVE ToldInv'
  OBVIOUS
<1>0. /\ "colorize" \in Coloring /\ "targets" \in Coloring /\ "draw" \in Drawing
      /\ \A p \in Unwritten \cup {"exit 1"} : p \notin Coloring \cup Drawing /\ p # "targets"
      /\ \A p \in Drawing : p # "targets"
  BY DEF Coloring, Unwritten, Drawing
<1>1. CASE UNCHANGED vars
  <2> PICK g, gv : g = file[Head(todo)] /\ gv = gvs[Head(todo)]
    OBVIOUS
  <2>1. Told(g, gv) => Told(g, gv)'
    BY <1>1 DEF vars, Told, Visited, Targets
  <2>2. phase' = "targets" => Told(file[Head(todo)], gvs[Head(todo)])'
    BY <1>1, <2>1, NextTold DEF vars, ToldInv
  <2>3. \A c : ToldAt(c) => ToldAt(c)'
    BY <1>1, AtKept DEF vars
  <2>4. UNCHANGED <<phase, MOD, RES, exported>>
    BY <1>1 DEF vars
  <2>. QED
    BY <2>2, <2>3, <2>4 DEF ToldInv
<1>2. CASE Fetches
  BY <1>0, <1>2, FetchesFacts DEF ToldInv
<1>3. CASE WriteFiles
  <2>1. /\ phase = "json2gv" /\ exported' = exported
        /\ \/ phase' = "draw" /\ MOD' = "4.x"
           \/ phase' = "colorize" /\ RES' = <<>>
    BY <1>3 DEF WriteFiles
  <2>2. exported = {}
    BY <2>1 DEF FlowInv, WriteInv
  <2>. QED
    BY <1>0, <2>1, <2>2, EmptyFacts DEF ToldInv
<1>4. CASE SkipChannel \/ StartChannel
  <2>1. /\ phase = "colorize" /\ todo # <<>>
        /\ UNCHANGED <<MOD, TRG, file, RES, EXT, gvs, exported>>
        /\ \/ phase' = "colorize"
           \/ /\ phase' = "targets" /\ todo' = todo
              /\ VER \in Range(file[Head(todo)].nodes) /\ lts' = capture_lts(file[Head(todo)])
    BY <1>4 DEF SkipChannel, StartChannel
  <2>2. phase' = "targets" => Told(file[Head(todo)], gvs[Head(todo)])'
    <3> SUFFICES ASSUME phase' = "targets" PROVE Told(file[Head(todo)], gvs[Head(todo)])'
      OBVIOUS
    <3>1. PICK g, gv : g = file[Head(todo)] /\ gv = gvs[Head(todo)]
      OBVIOUS
    <3>2. g \in Graphs /\ MOD # "4.x" /\ Head(todo) \in Range(todo)
      BY <1>0, <2>1, <3>1, ColoringFacts
    <3>3. gv = json2gv(g) /\ (RES = <<>> => EXT = {})
      BY <2>1, <3>1, <3>2 DEF UntouchedInv
    <3>4. Told(g, gv)'
      BY <1>0, <2>1, <3>1, <3>2, <3>3, PaintingStarts
    <3>. QED
      BY <1>0, <2>1, <3>1, <3>4, NextTold
  <2>3. \A c : ToldAt(c) => ToldAt(c)'
    BY <2>1, AtKept
  <2>. QED
    BY <1>0, <2>1, <2>2, <2>3 DEF ToldInv
<1>5. CASE ColorTarget
  <2>1. PICK target, h, g, gv, gw :
          /\ target \in lts /\ h = Head(todo) /\ g = file[h] /\ gv = gvs[h] /\ LatestFirst(target)
          /\ gw = Colors(g, gv, Position(g, target)) /\ gvs' = [gvs EXCEPT ![h] = gw]
          /\ lts' = lts \ {target}
    BY <1>5 DEF ColorTarget
  <2>2. phase = "targets" /\ UNCHANGED <<MOD, phase, TRG, todo, file, CHA, RES, exported>>
    BY <1>5 DEF ColorTarget
  <2>3. todo # <<>> /\ gvs = [c \in Channels |-> gvs[c]]
    BY <2>2 DEF TypeInv
  <2>4. /\ h \in Channels /\ g \in Graphs /\ MOD # "4.x" /\ exported = {} /\ h \notin Range(RES)
        /\ Range(RES) \subseteq Channels
    BY <1>0, <2>1, <2>2, <2>3, ColoringFacts
  <2>5. gvs'[h] = gw /\ \A c \in Channels \ {h} : gvs'[c] = gvs[c]
    BY <2>1, <2>3, <2>4
  <2>6. Painted(g, gv) /\ Told(g, gv)
    BY <2>1, <2>2 DEF PaintInv, ToldInv
  <2>7. Told(g, gw)'
    BY <2>1, <2>2, <2>4, <2>6, ToldStep
  <2>8. Told(file[Head(todo)], gvs[Head(todo)])'
    BY <2>1, <2>2, <2>5, <2>7, NextTold
  <2>9. \A c \in Range(RES) : ToldAt(c) => ToldAt(c)'
    BY <2>2, <2>4, <2>5, AtKept
  <2>. QED
    BY <1>0, <2>2, <2>4, <2>8, <2>9 DEF ToldInv
<1>6. CASE FinishChannel
  <2>1. PICK h, g, gv :
          /\ h = Head(todo) /\ g = file[h] /\ gv = gvs[h]
          /\ gvs' = [gvs EXCEPT ![h] = Finished(g, gv)] /\ RES' = Append(RES, h)
    BY <1>6 DEF FinishChannel, Finished
  <2>2. /\ phase = "targets" /\ phase' = "colorize" /\ lts = {}
        /\ UNCHANGED <<MOD, TRG, file, exported>>
    BY <1>6 DEF FinishChannel
  <2>3. todo # <<>> /\ gvs = [c \in Channels |-> gvs[c]]
    BY <2>2 DEF TypeInv
  <2>4. /\ h \in Channels /\ g \in Graphs /\ MOD # "4.x" /\ exported = {} /\ h \notin Range(RES)
        /\ Range(RES) \subseteq Channels /\ Range(RES') = Range(RES) \cup {h}
    BY <1>0, <2>1, <2>2, <2>3, ColoringFacts
  <2>5. gvs'[h] = Finished(g, gv) /\ \A c \in Channels \ {h} : gvs'[c] = gvs[c]
    BY <2>1, <2>3, <2>4
  <2>6. Painted(g, gv) /\ Told(g, gv)
    BY <2>1, <2>2 DEF PaintInv, ToldInv
  <2>7. ToldAt(h)'
    BY <2>1, <2>2, <2>4, <2>5, <2>6, NoLoops, ChannelTold
  <2>8. \A c \in Range(RES) : ToldAt(c) => ToldAt(c)'
    BY <2>2, <2>4, <2>5, AtKept
  <2>9. \A c \in Range(RES') : ToldAt(c)'
    BY <1>0, <2>2, <2>4, <2>7, <2>8 DEF ToldInv
  <2>. QED
    BY <1>0, <2>2, <2>4, <2>9 DEF ToldInv
<1>7. CASE Colorized \/ draw
  <2>1. /\ phase \in Coloring \cup Drawing /\ phase' \in {"draw", "done", "exit 1"}
        /\ UNCHANGED <<MOD, TRG, file, RES, gvs>>
    BY <1>7 DEF Colorized, draw, Coloring, Drawing
  <2>2. \A c : ToldAt(c) => ToldAt(c)'
    BY <2>1, AtKept
  <2>3. \A c \in exported' : c \in exported \/ c \in Range(RES)
    BY <1>7, ExportsResults
  <2>. QED
    BY <1>0, <2>1, <2>2, <2>3 DEF ToldInv
<1>. QED
  BY <1>1, <1>2, <1>3, <1>4, <1>5, <1>6, <1>7 DEF Next, Fetches

\* ToldInv holds at first.
LEMMA ToldInit == Init => ToldInv
BY DEF Init, ToldInv, Coloring, Drawing

\* When upgrades lead to later releases, the colours of a drawing tell the kinds of path
\* apart.  (A target visited early would otherwise be taken for an indirect node when a
\* path to a target visited later passes through it.)
THEOREM ColorsTellPaths ==
  ASSUME Ascending
  PROVE  Spec => []ColorsTell
<1>1. ToldInv => ColorsTell
  BY DEF ToldInv, ColorsTell, Exported, ToldAt
<1>2. LoopFree
  BY NoLoops
<1>. QED
  BY <1>1, <1>2, TypeInit, TypeStep, FlowInit, FlowStep, PaintInit, UntouchedStep, PaintStep,
     ToldInit, ToldInvStep, PTL DEF Spec
=============================================================================
