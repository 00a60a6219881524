---------------------------- MODULE UpgradePaths ----------------------------
(***************************************************************************)
(* debug/shell/ocp4upc.sh, the OCP4 upgrade path checker.  It checks its   *)
(* tools and the given release, fetches the graph of every channel and     *)
(* drops the empty and the duplicated ones.  In the modes 4.x.z and 4.x.z. *)
(* it colours the paths of at most two hops from the given version to      *)
(* every release of the target minor; in the mode 4.x it leaves the graphs *)
(* as they are.  Then it exports one drawing per channel.                  *)
(*                                                                         *)
(* A version is a number, ten times its minor plus its patch level.  In a  *)
(* channel a version is known by its position in the list of nodes, and an *)
(* edge is a pair of positions.                                            *)
(***************************************************************************)
EXTENDS Naturals, Sequences, Functions

CONSTANTS
  CHANDEF,   \* the channels, in order
  VER,       \* the version to start from
  Graphs,    \* the graphs that the API may answer with
  NoGraph    \* an answer that is no graph: an error page, or an error in JSON

Empty == [nodes |-> <<>>, edges |-> {}]
Minor(v) == v \div 10

ASSUME VersionAssumption == VER \in Nat
ASSUME AnswersAssumption == NoGraph \notin Graphs \cup {Empty}
ASSUME ChannelsAssumption == CHANDEF \in Seq(Range(CHANDEF)) /\ IsInjective(CHANDEF)
ASSUME GraphsAssumption ==
  \A g \in Graphs : /\ g = [nodes |-> g.nodes, edges |-> g.edges]
                    /\ g.nodes \in Seq(Nat) /\ IsInjective(g.nodes)
                    /\ g.edges \subseteq (DOMAIN g.nodes) \X (DOMAIN g.nodes)

VARIABLES
  MOD,      \* the mode, which the argument tells: "4.x.z", "4.x.z." or "4.x"
  phase,    \* the function that runs, "done" or "exit 1"
  TRG,      \* the minor the paths lead to
  todo,     \* the channels that the current loop has yet to visit
  file,     \* the answer stored for each channel
  CHA,      \* array of channels
  RES,      \* array of resulting channels
  lts,      \* the releases of the target minor that this channel's loop has yet to visit
  EXT,      \* positions of indirect nodes
  gvs,      \* the gv file of each channel: what is left of its nodes and edges
  exported  \* the channels whose drawing has been exported

vars == <<MOD, phase, TRG, todo, file, CHA, RES, lts, EXT, gvs, exported>>

Modes == {"4.x.z", "4.x.z.", "4.x"}
Minors == {Minor(VER), Minor(VER) + 1}

NoFile == [node |-> <<>>, edge |-> <<>>]

Init ==
  /\ MOD \in Modes
  /\ TRG = IF MOD = "4.x.z" THEN Minor(VER) + 1 ELSE Minor(VER)
  /\ phase = "check_prereq"
  /\ file = [c \in Range(CHANDEF) |-> Empty]
  /\ todo = CHANDEF /\ CHA = CHANDEF /\ RES = <<>> /\ lts = {} /\ EXT = {}
  /\ gvs = [c \in Range(CHANDEF) |-> NoFile]
  /\ exported = {}

-----------------------------------------------------------------------------
(* check_prereq and check_release.                                          *)

\* All tools are there and the temporary folder is writable, or not.
check_prereq ==
  /\ phase = "check_prereq"
  /\ phase' \in {"check_release", "exit 1"}
  /\ UNCHANGED <<MOD, TRG, todo, file, CHA, RES, lts, EXT, gvs, exported>>

\* The list of releases names the version; or it could not be fetched, and the
\* user goes on without it.  Otherwise the script ends.
check_release ==
  /\ phase = "check_release"
  /\ phase' \in {"get_paths", "exit 1"}
  /\ UNCHANGED <<MOD, TRG, todo, file, CHA, RES, lts, EXT, gvs, exported>>

-----------------------------------------------------------------------------
(* get_paths: one step per channel, then what follows the loop.             *)

\* Mutant: the second channel that is accepted is never compared.
DiffersOffByOne(g) ==
  LET i == Len(RES) IN i <= 1 \/ g # file[CHA[i]]

\* i counts the channels accepted so far and indexes the array of all of them.
Differs(g) ==
  LET i == Len(RES) IN i = 0 \/ g # file[CHA[i]]

FetchChannel ==
  /\ phase = "get_paths" /\ todo # <<>>
  /\ \E g \in Graphs \cup {NoGraph} :
       /\ file' = [file EXCEPT ![Head(todo)] = g]
       /\ RES' = IF g # Empty /\ Differs(g) THEN Append(RES, Head(todo)) ELSE RES
  /\ todo' = Tail(todo)
  /\ UNCHANGED <<MOD, phase, TRG, CHA, lts, EXT, gvs, exported>>

FetchFails ==
  /\ phase = "get_paths" /\ todo # <<>>
  /\ phase' = "exit 1"
  /\ UNCHANGED <<MOD, TRG, todo, file, CHA, RES, lts, EXT, gvs, exported>>

ChannelsFetched ==
  /\ phase = "get_paths" /\ todo = <<>> /\ RES # <<>>
  /\ phase' = "json2gv" /\ CHA' = RES
  /\ UNCHANGED <<MOD, TRG, todo, file, RES, lts, EXT, gvs, exported>>

\* Mutant: the target minor is decremented without the test that it is the
\* next one.
RetargetUnchecked ==
  /\ phase = "get_paths" /\ todo = <<>> /\ RES = <<>>
  /\ CHA' = CHANDEF /\ TRG' = TRG - 1 /\ MOD' = "4.x.z." /\ todo' = CHANDEF
  /\ file' = [c \in Range(CHANDEF) |-> Empty]
  /\ UNCHANGED <<phase, RES, lts, EXT, gvs, exported>>

\* No channel is left for the next minor, and the user agrees to the same minor.
Retarget ==
  /\ phase = "get_paths" /\ todo = <<>> /\ RES = <<>>
  /\ TRG # Minor(VER)
  /\ CHA' = CHANDEF /\ TRG' = Minor(VER) /\ MOD' = "4.x.z." /\ todo' = CHANDEF
  /\ file' = [c \in Range(CHANDEF) |-> Empty]
  /\ UNCHANGED <<phase, RES, lts, EXT, gvs, exported>>

NoChannels ==
  /\ phase = "get_paths" /\ todo = <<>> /\ RES = <<>>
  /\ phase' = "exit 1" /\ CHA' = RES
  /\ UNCHANGED <<MOD, TRG, todo, file, RES, lts, EXT, gvs, exported>>

-----------------------------------------------------------------------------
(* json2gv for all channels, then capture_lts and colorize for one at a     *)
(* time.                                                                    *)

json2gv(g) ==
  [node |-> [p \in DOMAIN g.nodes |->
               IF MOD # "4.x" /\ g.nodes[p] = VER THEN "NODs" ELSE "DEF"],
   edge |-> [e \in g.edges |-> "DEF"]]

\* Only the modes with paths go through colorize, which counts its results anew.
WriteFiles ==
  /\ phase = "json2gv" /\ \A c \in Range(CHA) : file[c] # NoGraph
  /\ gvs' = [c \in Range(CHANDEF) |->
               IF c \in Range(CHA) THEN json2gv(file[c]) ELSE gvs[c]]
  /\ todo' = CHA
  /\ \/ MOD = "4.x" /\ phase' = "draw" /\ UNCHANGED RES
     \/ MOD # "4.x" /\ phase' = "colorize" /\ RES' = <<>>
  /\ UNCHANGED <<MOD, TRG, file, CHA, lts, EXT, exported>>

\* One answer that is no graph ends the script for all channels.
WriteFails ==
  /\ phase = "json2gv" /\ \E c \in Range(CHA) : file[c] = NoGraph
  /\ phase' = "exit 1"
  /\ UNCHANGED <<MOD, TRG, todo, file, CHA, RES, lts, EXT, gvs, exported>>

Position(g, v) == CHOOSE p \in DOMAIN g.nodes : g.nodes[p] = v

\* The releases of the target minor in the answer.
capture_lts(g) == {v \in Range(g.nodes) : Minor(v) = TRG}

\* Mutant: the releases come the earliest first.
EarliestFirst(target) == \A v \in lts : target <= v

\* They come the latest first.
LatestFirst(target) == \A v \in lts : v <= target

\* The positions that an edge from the source leads to.
IND(g) == {e[2] : e \in {d \in g.edges : d[1] = Position(g, VER)}}

\* Mutant: a target with a direct edge is done with.
IndirectOnly(g, gv, posT) ==
  IF posT \in IND(g) THEN {} ELSE {n \in IND(g) : <<n, posT>> \in g.edges}

\* Those of them that an edge without a colour leads from to the target.
Indirect(g, gv, posT) ==
  {n \in IND(g) \ {posT} : <<n, posT>> \in g.edges /\ gv.edge[<<n, posT>>] = "DEF"}

\* The target, the edge that leads to it straight from the source, and the edges
\* that lead to it over one of the source's successors get their colours.
Colors(g, gv, posT) ==
  LET direct == posT \in IND(g)
      via == Indirect(g, gv, posT)
  IN [node |-> [p \in DOMAIN gv.node |->
                  IF p = posT /\ (direct \/ via # {}) THEN "NODt"
                  ELSE IF p \in via THEN "NODi" ELSE gv.node[p]],
      edge |-> [e \in g.edges |->
                  IF direct /\ e = <<Position(g, VER), posT>> THEN "EDGt"
                  ELSE IF e[2] = posT /\ e[1] \in via THEN "EDGs" ELSE gv.edge[e]]]

\* Mutant: every edge from the source is coloured.
ColorAllSourceEdges(g, edge) ==
  [e \in g.edges |-> IF e[1] = Position(g, VER) /\ edge[e] = "DEF" THEN "EDGs" ELSE edge[e]]

\* The edges from the source to the indirect nodes, if not coloured yet.
ColorSourceEdges(g, edge) ==
  [e \in g.edges |->
     IF e[1] = Position(g, VER) /\ e[2] \in EXT /\ edge[e] = "DEF" THEN "EDGs" ELSE edge[e]]

\* What still has the default colour is removed.
Colored(f) == [x \in {y \in DOMAIN f : f[y] # "DEF"} |-> f[x]]

SkipChannel ==
  /\ phase = "colorize" /\ todo # <<>>
  /\ LET g == file[Head(todo)]
     IN VER \notin Range(g.nodes) \/ capture_lts(g) = {}
  /\ todo' = Tail(todo)
  /\ UNCHANGED <<MOD, phase, TRG, file, CHA, RES, lts, EXT, gvs, exported>>

StartChannel ==
  /\ phase = "colorize" /\ todo # <<>>
  /\ LET g == file[Head(todo)]
     IN VER \in Range(g.nodes) /\ capture_lts(g) # {} /\ lts' = capture_lts(g)
  /\ phase' = "targets"
  /\ UNCHANGED <<MOD, TRG, todo, file, CHA, RES, EXT, gvs, exported>>

\* The next target of the channel.
ColorTarget ==
  /\ phase = "targets"
  /\ \E target \in lts :
       LET c == Head(todo)
           posT == Position(file[c], target)
       IN /\ LatestFirst(target)
          /\ gvs' = [gvs EXCEPT ![c] = Colors(file[c], gvs[c], posT)]
          /\ EXT' = EXT \cup Indirect(file[c], gvs[c], posT)
          /\ lts' = lts \ {target}
  /\ UNCHANGED <<MOD, phase, TRG, todo, file, CHA, RES, exported>>

\* All targets of the channel are done with.
FinishChannel ==
  /\ phase = "targets" /\ lts = {}
  /\ LET c == Head(todo)
         edge == ColorSourceEdges(file[c], gvs[c].edge)
     IN /\ gvs' = [gvs EXCEPT ![c] = [node |-> Colored(gvs[c].node), edge |-> Colored(edge)]]
        /\ RES' = Append(RES, c)
  /\ phase' = "colorize" /\ todo' = Tail(todo)
  /\ UNCHANGED <<MOD, TRG, file, CHA, lts, EXT, exported>>

\* With no resulting channel the script aborts.
Colorized ==
  /\ phase = "colorize" /\ todo = <<>>
  /\ phase' = (IF RES = <<>> THEN "exit 1" ELSE "draw") /\ todo' = RES
  /\ UNCHANGED <<MOD, TRG, file, CHA, RES, lts, EXT, gvs, exported>>

\* Mutant: the status of dot is not looked at.
DrawUnchecked ==
  /\ phase = "draw" /\ todo # <<>> /\ todo' = Tail(todo)
  /\ exported' \in {exported, exported \cup {Head(todo)}}
  /\ phase' = IF todo' = <<>> THEN "done" ELSE phase
  /\ UNCHANGED <<MOD, TRG, file, CHA, RES, lts, EXT, gvs>>

\* label and draw: the first drawing that fails ends the script, the drawings
\* before it stay.
draw ==
  /\ phase = "draw" /\ todo # <<>>
  /\ \/ /\ exported' = exported \cup {Head(todo)} /\ todo' = Tail(todo)
        /\ phase' = IF todo' = <<>> THEN "done" ELSE phase
     \/ phase' = "exit 1" /\ UNCHANGED <<todo, exported>>
  /\ UNCHANGED <<MOD, TRG, file, CHA, RES, lts, EXT, gvs>>

Next ==
  \/ check_prereq \/ check_release
  \/ FetchChannel \/ FetchFails \/ ChannelsFetched \/ Retarget \/ NoChannels
  \/ WriteFiles \/ WriteFails
  \/ SkipChannel \/ StartChannel \/ ColorTarget \/ FinishChannel \/ Colorized
  \/ draw

Spec == Init /\ [][Next]_vars

-----------------------------------------------------------------------------
(* Reference: the paths of one or two hops from VER to the target minor.    *)

Targets(g) == {p \in DOMAIN g.nodes : Minor(g.nodes[p]) = TRG}

Direct(g) == {e \in g.edges : g.nodes[e[1]] = VER /\ e[2] \in Targets(g)}

Second(g) == {e \in g.edges : /\ e[2] \in Targets(g)
                              /\ <<Position(g, VER), e[1]>> \in g.edges}

First(g) == {e \in g.edges : /\ g.nodes[e[1]] = VER
                             /\ \E d \in Second(g) : d[1] = e[2]}

Paths(g) == Direct(g) \cup First(g) \cup Second(g)

Ends(E) == {e[1] : e \in E} \cup {e[2] : e \in E}

\* Hypotheses on the answers: no release can be upgraded to itself, and upgrades lead to
\* later releases.
LoopFree == \A g \in Graphs : \A e \in g.edges : e[1] # e[2]
Ascending == \A g \in Graphs : \A e \in g.edges : g.nodes[e[1]] < g.nodes[e[2]]

-----------------------------------------------------------------------------
(* Properties.                                                              *)

\* Each variable has its type.
TypeOK ==
  /\ MOD \in Modes /\ TRG \in Minors
  /\ phase \in {"check_prereq", "check_release", "get_paths", "json2gv",
               "colorize", "targets", "draw", "done", "exit 1"}
  /\ file \in [Range(CHANDEF) -> Graphs \cup {Empty, NoGraph}]
  /\ todo \in Seq(Range(CHANDEF)) /\ CHA \in Seq(Range(CHANDEF))
  /\ RES \in Seq(Range(CHANDEF)) /\ lts \subseteq Nat /\ exported \subseteq Range(CHANDEF)
  /\ \A c \in Range(CHANDEF) : gvs[c] # NoFile =>
       /\ DOMAIN gvs[c].node \subseteq DOMAIN file[c].nodes
       /\ DOMAIN gvs[c].edge \subseteq file[c].edges

\* Exit status 0 comes when every channel that was kept has been exported, and
\* there is one; only channels that were kept are exported, in the mode 4.x with
\* their whole graph (lines 299-344).
StatusTells ==
  /\ phase = "done" => exported = Range(RES) /\ exported # {}
  /\ exported \subseteq Range(RES) \cap Range(CHA)
  /\ \A c \in exported : /\ file[c] \notin {Empty, NoGraph}
                         /\ MOD = "4.x" => gvs[c] = json2gv(file[c])

\* The drawing of channel c, which shows paths.
Exported(c) == c \in exported /\ MOD # "4.x"

\* A drawing shows the source and the nodes of its paths, and no other; no edge
\* of a path is missing, whatever was coloured twice, and edges that are on no
\* path start at the source.
PathsDrawn ==
  \A c \in Range(CHANDEF) : Exported(c) =>
    LET g == file[c] v == Position(g, VER)
    IN /\ DOMAIN gvs[c].node = {v} \cup Ends(Paths(g))
       /\ Paths(g) \subseteq DOMAIN gvs[c].edge
       /\ \A e \in DOMAIN gvs[c].edge \ Paths(g) : e[1] = v

\* The colours tell the kinds of path apart: a bold red edge leads straight to
\* the target minor, a target has the target colour even where a longer path
\* passes through it, and any other node on a path is indirect.
ColorsTell ==
  \A c \in Range(CHANDEF) : Exported(c) =>
    LET g == file[c] d == gvs[c]
    IN /\ \A e \in Paths(g) : d.edge[e] = IF e \in Direct(g) THEN "EDGt" ELSE "EDGs"
       /\ \A p \in Ends(Paths(g)) :
            d.node[p] = IF g.nodes[p] = VER THEN "NODs"
                        ELSE IF p \in Targets(g) THEN "NODt" ELSE "NODi"

\* The first channel that is drawn shows the edges of its paths and no other.
FirstDrawingExact ==
  phase = "done" /\ MOD # "4.x" => DOMAIN gvs[RES[1]].edge = Paths(file[RES[1]])

\* "discard duplicated channels": no channel is kept next to an equal one.
NoDuplicates ==
  phase \in {"json2gv", "colorize", "targets", "draw", "done"} =>
    \A i \in 1 .. Len(CHA) - 1 : file[CHA[i]] # file[CHA[i + 1]]

\* "remove non involved nodes+edges to simplify the graph": every edge that is
\* drawn joins two nodes that are drawn.
NoDanglingEdges ==
  \A c \in Range(CHANDEF) : Exported(c) =>
    \A e \in DOMAIN gvs[c].edge : {e[1], e[2]} \subseteq DOMAIN gvs[c].node

=============================================================================
