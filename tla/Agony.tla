-------------------------------- MODULE Agony --------------------------------
(***************************************************************************)
(* remove_cycle/agony: ranks the nodes of a directed graph so that the      *)
(* agony, the sum of rank(u) - rank(v) + 1 over the edges u -> v that do    *)
(* not go up, is minimal.  The tool that breaks the cycles of a custom      *)
(* topology's channel graph removes edges along these ranks.                *)
(*                                                                         *)
(* A depth-first search takes cycles out of the graph; what it takes is the *)
(* Eulerian part, the rest is acyclic and gives the first ranks.  Each call *)
(* of relief then lifts nodes to take the slack from one Eulerian edge, and *)
(* exchanges a cycle between the two parts when it cannot take all of it.   *)
(* Lists whose order only breaks ties are sets, and any tie-break is taken. *)
(***************************************************************************)
EXTENDS Integers, Sequences, FiniteSets, SequencesExt, FiniteSetsExt

CONSTANT Inputs   \* the input files: sequences of edges, pairs of labels

VARIABLES pc,
          labels, graph,         \* node to label, edge to nodes
          parent, paredge,       \* of a node, in either search
          u, seed, active, left, \* cycledfs: node, root, nodes not done, edges of dfs
          euler,                 \* edges marked eulerian
          rank, newrank, count, sources,
          slackOf,               \* slack recorded in an edge, by which it is filed
          curslack, primal, dual,
          edge, diff, curstack, visited, nl, bound  \* relief

file       == <<labels, graph>>
searchVars == <<u, seed, active, left>>
rankVars   == <<count, sources>>
reliefVars == <<edge, diff, curstack, visited, nl, bound>>
vars == <<pc, labels, graph, parent, paredge, searchVars, euler, rank, newrank, rankVars,
          slackOf, curslack, primal, dual, reliefVars>>

NoNode == -1
-----------------------------------------------------------------------------
(* read: a label's number is the place of its first appearance. *)
read(in) ==
  FoldLeft(LAMBDA s, x : IF Contains(s, x) THEN s ELSE Append(s, x), <<>>, FlattenSeq(in))

Nodes == 0 .. Len(labels) - 1
Edges == DOMAIN graph

slack(r, e) ==
  LET a == graph[e][1]
      b == graph[e][2]
  IN  IF r[b] > r[a] + 1 THEN r[b] - r[a] - 1 ELSE 0

Init ==
  /\ \E in \in Inputs :
       /\ labels = read(in)
       /\ LET node(x) == SelectInSeq(labels, LAMBDA y : y = x) - 1
          IN  graph = [e \in DOMAIN in |-> <<node(in[e][1]), node(in[e][2])>>]
  /\ pc = "dfs"
  /\ parent = [n \in Nodes |-> NoNode] /\ paredge = [n \in Nodes |-> NoNode]
  /\ u = NoNode /\ seed = NoNode /\ active = Nodes /\ left = Edges /\ euler = {}
  /\ rank = [n \in Nodes |-> 0] /\ newrank = rank /\ count = rank /\ sources = <<>>
  /\ slackOf = [e \in Edges |-> 0] /\ curslack = -1 /\ primal = 0 /\ dual = 0
  /\ edge = NoNode /\ diff = rank /\ curstack = -1 /\ visited = <<>> /\ nl = {} /\ bound = 0
-----------------------------------------------------------------------------
(* cycledfs.  Edges leave a node in the order of the file. *)
OutOf(n) == {e \in left : graph[e][1] = n}

NewSeed ==
  /\ pc = "dfs" /\ u = NoNode /\ active # {}
  /\ seed' = Min(active) /\ u' = seed'
  /\ parent' = [parent EXCEPT ![seed'] = NoNode]
  /\ UNCHANGED <<pc, file, paredge, active, left, euler, rank, newrank, rankVars, slackOf,
                 curslack, primal, dual, reliefVars>>

(* A node without edges is done, and every edge into it goes with it. *)
Leave ==
  /\ pc = "dfs" /\ u # NoNode /\ OutOf(u) = {}
  /\ active' = active \ {u}
  /\ left' = {e \in left : graph[e][2] # u}
  /\ u' = parent[u]
  /\ UNCHANGED <<pc, file, parent, paredge, seed, euler, rank, newrank, rankVars, slackOf,
                 curslack, primal, dual, reliefVars>>

Descend ==
  /\ pc = "dfs" /\ u # NoNode /\ OutOf(u) # {}
  /\ LET e == Min(OutOf(u)) IN
       /\ parent[graph[e][2]] = NoNode /\ graph[e][2] # seed
       /\ parent' = [parent EXCEPT ![graph[e][2]] = u]
       /\ paredge' = [paredge EXCEPT ![graph[e][2]] = e]
       /\ u' = graph[e][2]
  /\ UNCHANGED <<pc, file, seed, active, left, euler, rank, newrank, rankVars, slackOf,
                 curslack, primal, dual, reliefVars>>

(* The nodes from a up to b on the search path, b left out. *)
PathTo(a, b) ==
  LET up[i \in 0 .. Cardinality(Nodes)] ==
        IF i = 0 THEN a ELSE IF up[i - 1] \in {b, NoNode} THEN up[i - 1] ELSE parent[up[i - 1]]
  IN  {up[i] : i \in 0 .. Cardinality(Nodes)} \ {b}

(* An edge back to the path closes a cycle, which becomes Eulerian. *)
CloseCycle ==
  /\ pc = "dfs" /\ u # NoNode /\ OutOf(u) # {}
  /\ LET e == Min(OutOf(u))
         v == graph[e][2]
         cycle == {e} \cup {paredge[w] : w \in PathTo(u, v)}
     IN /\ parent[v] # NoNode \/ v = seed
        /\ euler' = euler \cup cycle
        /\ left' = left \ cycle
        /\ parent' = [w \in Nodes |-> IF w \in PathTo(u, v) THEN NoNode ELSE parent[w]]
        /\ u' = v
  /\ UNCHANGED <<pc, file, paredge, seed, active, rank, newrank, rankVars, slackOf,
                 curslack, primal, dual, reliefVars>>

Dag == Edges \ euler

(* initagony, and initrank up to its list of sources. *)
InitAgony ==
  /\ pc = "dfs" /\ u = NoNode /\ active = {} /\ pc' = "rank"
  /\ dual' = Cardinality(euler) /\ primal' = dual'
  /\ count' = [n \in Nodes |-> Cardinality({e \in Dag : graph[e][2] = n})]
  /\ sources' = SelectSeq([i \in 1 .. Cardinality(Nodes) |-> i - 1],
                          LAMBDA n : count'[n] = 0)
  /\ UNCHANGED <<file, parent, paredge, searchVars, euler, rank, newrank, slackOf, curslack,
                 reliefVars>>

(* initrank: a source lifts its successors above itself. *)
Lift ==
  /\ pc = "rank" /\ sources # <<>>
  /\ LET n == Head(sources)
         into(m) == {e \in Dag : graph[e][1] = n /\ graph[e][2] = m}
     IN /\ count' = [m \in Nodes |-> count[m] - Cardinality(into(m))]
        /\ rank' = [m \in Nodes |-> IF into(m) = {} THEN rank[m] ELSE Max({rank[m], rank[n] + 1})]
        /\ sources' = Tail(sources) \o
             SetToSortSeq({m \in Nodes : into(m) # {} /\ count'[m] = 0}, <)
  /\ newrank' = rank'
  /\ UNCHANGED <<pc, file, parent, paredge, searchVars, euler, slackOf, curslack, primal,
                 dual, reliefVars>>

Ranked ==
  /\ pc = "rank" /\ sources = <<>> /\ pc' = "min"
  /\ slackOf' = [e \in Edges |-> IF e \in euler THEN slack(rank, e) ELSE 0]
  /\ primal' = primal + MapThenSumSet(LAMBDA e : slack(rank, e), euler)
  /\ curslack' = Max({-1} \cup {slack(rank, e) : e \in Edges})
  /\ UNCHANGED <<file, parent, paredge, searchVars, euler, rank, newrank, rankVars, dual,
                 reliefVars>>
-----------------------------------------------------------------------------
(* minagony: an edge of the largest slack is relieved until none has any.  *)
(* curslack only goes down, so no edge may ever get a larger slack.        *)
(* Mutation: a slack of 1 is left. *)
WithSlackAboveOne(k) == {e \in euler : slackOf[e] = k + 1 /\ k > 0}

(* Mutation: edges are looked for in the lists of larger slacks, and of none. *)
WithSlackAny(k) == {e \in euler : slackOf[e] >= k}

WithSlack(k) == {e \in euler : slackOf[e] = k + 1}

Relieve ==
  /\ pc = "min"
  /\ \E k \in 0 .. curslack :
       /\ WithSlack(k) # {} /\ \A j \in k + 1 .. curslack : WithSlack(j) = {}
       /\ curslack' = k
       /\ \E e \in WithSlack(k) :
            /\ edge' = e
            /\ parent' = [parent EXCEPT ![graph[e][1]] = NoNode]
            /\ diff' = [diff EXCEPT ![graph[e][1]] = slack(rank, e)]
            /\ curstack' = slack(rank, e) - 1
            /\ nl' = {graph[e][1]}
  /\ visited' = <<>> /\ bound' = 0 /\ pc' = "relief"
  /\ UNCHANGED <<file, paredge, searchVars, euler, rank, newrank, rankVars, slackOf,
                 primal, dual>>

Finish ==
  /\ pc = "min" /\ \A k \in 0 .. curslack : WithSlack(k) = {}
  /\ pc' = "done" /\ curslack' = -1
  /\ UNCHANGED <<file, parent, paredge, searchVars, euler, rank, newrank, rankVars, slackOf,
                 primal, dual, reliefVars>>

Top == Max({-1} \cup {diff[n] - 1 : n \in Nodes})
Target == graph[edge][2]

(* How far node x, just lifted to nr[x], pushes the node at the other end   *)
(* of an edge: up a dag edge to keep it going up, down an Eulerian edge to  *)
(* keep its slack from growing.                                            *)
Push(nr, e, x) ==
  IF e \in euler THEN slack(nr, e) - slack(rank, e) ELSE nr[x] + 1 - nr[graph[e][2]]
Other(e, x) == IF e \in euler THEN graph[e][1] ELSE graph[e][2]

Around(x) == {e \in Dag : graph[e][1] = x} \cup {e \in euler : graph[e][2] = x}

(* The node lifted most leaves the stack; those it pushes go on it. *)
ReliefStep ==
  /\ pc = "relief" /\ Top >= bound
  /\ \E x \in Nodes :
       /\ diff[x] = Top + 1
       /\ LET nr == [newrank EXCEPT ![x] = rank[x] + diff[x]]
              pushed == IF x = Target THEN {} ELSE {e \in Around(x) : Push(nr, e, x) > 0}
              best(n) == Max({0} \cup {Push(nr, e, x) : e \in {f \in pushed : Other(f, x) = n}})
              old == [diff EXCEPT ![x] = 0]
              onto == {n \in Nodes : best(n) > old[n]}
          IN /\ newrank' = nr
             /\ visited' = Append(visited, x)
             /\ diff' = [n \in Nodes |-> IF n \in onto THEN best(n) ELSE old[n]]
             /\ parent' = [n \in Nodes |-> IF n \in onto THEN x ELSE parent[n]]
             /\ \E via \in [onto -> pushed] :
                  /\ \A n \in onto : Other(via[n], x) = n /\ Push(nr, via[n], x) = best(n)
                  /\ paredge' = [n \in Nodes |-> IF n \in onto THEN via[n] ELSE paredge[n]]
             /\ nl' = nl \cup onto
             /\ bound' = Max({bound, best(Target)})
             /\ pc' = IF x = Target THEN "shift" ELSE "relief"
  /\ curstack' = Top
  /\ UNCHANGED <<file, searchVars, euler, rank, rankVars, slackOf, curslack, primal, dual, edge>>

ReliefOver ==
  /\ pc = "relief" /\ Top < bound /\ pc' = "shift"
  /\ curstack' = Top
  /\ UNCHANGED <<file, parent, paredge, searchVars, euler, rank, newrank, rankVars, slackOf,
                 curslack, primal, dual, edge, diff, visited, nl, bound>>

(* The search tree's path from the target back to the edge's other end. *)
Cycle == {paredge[n] : n \in PathTo(Target, graph[edge][1])}

(* shiftrank, updaterelief and extractcycle: the visited nodes keep what    *)
(* they were lifted above the stack, slacks are filed again, and if some    *)
(* slack of the edge is left the cycle it closes with the search path       *)
(* changes sides: its Eulerian edges join the dag and the others leave it.  *)
shifted ==
  [n \in Nodes |->
     newrank[n] - (IF curstack >= 0 THEN curstack + 1 ELSE 0)
                  * Cardinality({i \in DOMAIN visited : visited[i] = n})]

Shift ==
  /\ pc = "shift" /\ pc' = "min"
  /\ newrank' = shifted
  /\ rank' = [n \in Nodes |-> IF n \in nl THEN shifted[n] ELSE rank[n]]
  /\ diff' = [n \in Nodes |-> IF n \in nl THEN 0 ELSE diff[n]]
  /\ LET filed == [e \in Edges |-> IF e \in euler /\ graph[e][1] \in nl THEN slack(rank', e)
                                   ELSE slackOf[e]]
         in  == IF slack(rank', edge) > 0 THEN Cycle \ euler ELSE {}
         out == IF slack(rank', edge) > 0 THEN (Cycle \cap euler) \cup {edge} ELSE {}
         Sum(f, S) == MapThenSumSet(LAMBDA e : f[e], S)
     IN /\ euler' = (euler \ out) \cup in
        /\ slackOf' = [e \in Edges |-> IF e \in in THEN slack(rank', e)
                                       ELSE IF e \in out THEN 0 ELSE filed[e]]
        /\ primal' = primal + Sum(filed, euler) - Sum(slackOf, euler) - Sum(filed, out)
                     + MapThenSumSet(LAMBDA e : slack(rank', e), in)
                     + Cardinality(in) - Cardinality(out)
        /\ dual' = dual + Cardinality(in) - Cardinality(out)
  /\ UNCHANGED <<file, parent, paredge, searchVars, rankVars, curslack, edge, curstack,
                 visited, nl, bound>>

Next == NewSeed \/ Leave \/ Descend \/ CloseCycle \/ InitAgony \/ Lift \/ Ranked
        \/ Relieve \/ Finish \/ ReliefStep \/ ReliefOver \/ Shift
Spec == Init /\ [][Next]_vars
FairSpec == Spec /\ WF_vars(Next)
-----------------------------------------------------------------------------
cost(r) == FoldLeft(LAMBDA t, g : IF r[g[2]] <= r[g[1]] THEN t + r[g[1]] - r[g[2]] + 1 ELSE t,
                    0, graph)

(* writeagony: the ranks in use are numbered again without gaps. *)
written == [n \in Nodes |-> Cardinality({rank[m] : m \in {k \in Nodes : rank[k] < rank[n]}})]

(* Between two reliefs every dag edge goes up, each edge is filed under its *)
(* true slack and none above curslack, and the Eulerian part is balanced:   *)
(* what the asserts of relief and the lists of minagony rely on.            *)
SlacksFiled ==
  pc = "min" =>
    /\ \A e \in Dag : rank[graph[e][1]] < rank[graph[e][2]]
    /\ \A e \in euler : slackOf[e] = slack(rank, e) /\ slackOf[e] <= curslack + 1
    /\ \A n \in Nodes : Cardinality({e \in euler : graph[e][1] = n})
                        = Cardinality({e \in euler : graph[e][2] = n})
    /\ dual = Cardinality(euler)

(* The ranks that are written have the least agony of all rankings, the    *)
(* value the program prints.                                               *)
AgonyMinimal ==
  pc = "done" =>
    /\ cost(written) = dual /\ primal = dual
    /\ \A r \in [Nodes -> 0 .. Cardinality(Nodes) - 1] : cost(r) >= dual

(* The relief of slacks comes to an end. *)
RankingEnds == <>(pc = "done")
=============================================================================
