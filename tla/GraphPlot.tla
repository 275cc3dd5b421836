------------------------------ MODULE GraphPlot ------------------------------
(* The task graph of the dashboard: GraphLayout, a plugin of the Scheduler,  *)
(* gives every task a place and an index and collects what has changed; the  *)
(* plot takes that over from time to time and addresses what it has drawn    *)
(* by these indices, which both sides must keep in step.  Indices start at   *)
(* 1 here.  Scheduler.restart, which plugins of this kind do not notice, is  *)
(* left out.                                                                 *)
EXTENDS Naturals, Sequences, SequencesExt, FiniteSetsExt

CONSTANTS GrKeys, GrDeps,  \* the tasks and what each depends on
          GrUnit,          \* units of length in a distance of 1, a multiple of 10
          MaxGraphMoves    \* bound: steps of the Scheduler

VARIABLES grTasks,    \* scheduler.tasks: the state of each task
          grLayout,   \* the GraphLayout; home, where each task belongs, is auxiliary
          grPlot,     \* the GraphPlot: nodes and edges drawn, invisible_count
          grOpen,     \* is there a plot?
          grSilent,   \* tasks whose last change of state was no transition
          grSkipped,  \* since the last reset: was anything new gone before it was drawn?
          grGone,     \* since the plot exists: has a task been forgotten?
          grMoves

grHistory == <<grSilent, grSkipped, grGone, grMoves>>
grVars == <<grTasks, grLayout, grPlot, grOpen, grHistory>>

GrPresent == DOMAIN grTasks
EmptyLayout ==
    [x |-> <<>>, y |-> <<>>, home |-> <<>>, collision |-> <<>>, nextY |-> 0,
     index |-> <<>>, nextIndex |-> 1, edges |-> <<>>, nextEdge |-> 1,
     new |-> <<>>, newEdges |-> <<>>, states |-> <<>>, hidden |-> {}, hiddenEdges |-> {}]
EmptyPlot == [nodes |-> <<>>, edges |-> <<>>, invisible |-> 0]

GrInit ==
    /\ grTasks = <<>> /\ grLayout = EmptyLayout /\ grPlot = EmptyPlot /\ grOpen = FALSE
    /\ grSilent = {} /\ grSkipped = FALSE /\ grGone = FALSE /\ grMoves = 0
-----------------------------------------------------------------------------
(* GraphLayout *)

With(f, k, v) == [j \in DOMAIN f \cup {k} |-> IF j = k THEN v ELSE f[j]]
Less(f, ks) == [j \in DOMAIN f \ ks |-> f[j]]

(* Where a task belongs: right of its dependencies, at their mean height,    *)
(* weighted by their dependents among the tasks.                             *)
Place(l, tasks, k) ==
    LET Weight(d) == Cardinality({j \in tasks : d \in GrDeps[j]})
        WeightedY(d) == l.y[d] * Weight(d)
    IN  IF GrDeps[k] = {} THEN <<0, l.nextY * GrUnit>>
        ELSE <<Max({l.x[d] : d \in GrDeps[k]}) + 1,
               MapThenSumSet(WeightedY, GrDeps[k]) \div MapThenSumSet(Weight, GrDeps[k])>>

(* A place that is taken: a tenth above the last task that belonged there.   *)
FreePlace(l, place) ==
    IF place \in DOMAIN l.collision
    THEN <<l.collision[place][1], l.collision[place][2] + GrUnit \div 10>> ELSE place

(* Indices for a task and its edges.                                         *)
Indexed(l, k) ==
    LET deps == SetToSeq(GrDeps[k])
        edges == [i \in DOMAIN deps |-> <<deps[i], k>>]
    IN  [l EXCEPT !.index = With(@, k, l.nextIndex), !.nextIndex = @ + 1,
                  !.edges = [e \in DOMAIN @ \cup ToSet(edges) |->
                                IF e \in ToSet(edges)
                                THEN l.nextEdge - 1 + (CHOOSE i \in DOMAIN edges : edges[i] = e)
                                ELSE @[e]],
                  !.nextEdge = @ + Len(edges),
                  !.new = Append(@, k), !.newEdges = @ \o edges]

(* update_graph: the tasks that are not placed yet, dependencies first.      *)
PlaceTask(l, tasks, k) ==
    LET place == Place(l, tasks, k)
        free == FreePlace(l, place)
    IN  Indexed([l EXCEPT !.x = With(@, k, free[1]), !.y = With(@, k, free[2]),
                          !.home = With(@, k, place), !.collision = With(@, place, free),
                          !.nextY = IF GrDeps[k] = {} THEN @ + 1 ELSE @], k)
PlaceAll(l, tasks, order) == FoldLeft(LAMBDA m, k : PlaceTask(m, tasks, k), l, order)
Orders(keys) ==
    {o \in SetToSeqs(keys) : \A i \in DOMAIN o : GrDeps[o[i]] \cap keys \subseteq {o[j] : j \in 1..(i - 1)}}

(* transition *)
StateTold(l, k, state) == [l EXCEPT !.states = Append(@, <<l.index[k], state>>)]
ForgottenWithEdges(l, k) ==  \* mistake: the edges from its dependencies keep their indices
    [l EXCEPT !.hidden = @ \cup {l.index[k]}, !.index = Less(@, {k}),
              !.collision = Less(@, {<<l.x[k], l.y[k]>>}),
              !.x = Less(@, {k}), !.y = Less(@, {k}), !.home = Less(@, {k})]
ForgottenTold(l, k) ==
    LET out == {e \in DOMAIN l.edges : k \in {e[1], e[2]}}
    IN  [l EXCEPT !.hidden = @ \cup {l.index[k]}, !.index = Less(@, {k}),
                  !.hiddenEdges = @ \cup {l.edges[e] : e \in out}, !.edges = Less(@, out),
                  !.collision = Less(@, {<<l.x[k], l.y[k]>>}),
                  !.x = Less(@, {k}), !.y = Less(@, {k}), !.home = Less(@, {k})]

(* reset_index *)
ResetKeepsHidden(l) ==  \* mistake: the hidden nodes are still to be told, by their old indices
    FoldLeft(Indexed, [l EXCEPT !.index = <<>>, !.nextIndex = 1, !.edges = <<>>, !.nextEdge = 1,
                                !.new = <<>>, !.newEdges = <<>>, !.states = <<>>],
             SetToSeq(DOMAIN l.x))
ResetIndex(l) ==
    FoldLeft(Indexed, [l EXCEPT !.index = <<>>, !.nextIndex = 1, !.edges = <<>>, !.nextEdge = 1,
                                !.new = <<>>, !.newEdges = <<>>, !.states = <<>>,
                                !.hidden = {}, !.hiddenEdges = {}],
             SetToSeq(DOMAIN l.x))
-----------------------------------------------------------------------------
(* GraphPlot *)

OpenPlot ==
    /\ ~grOpen /\ grOpen' = TRUE
    /\ \E order \in Orders(GrPresent) : grLayout' = PlaceAll(EmptyLayout, GrPresent, order)
    /\ grPlot' = EmptyPlot
    /\ grSilent' = {} /\ grSkipped' = FALSE /\ grGone' = FALSE
    /\ UNCHANGED <<grTasks, grMoves>>

(* __del__: the plugin is removed.                                           *)
ClosePlot ==
    /\ grOpen /\ grOpen' = FALSE
    /\ grLayout' = EmptyLayout /\ grPlot' = EmptyPlot
    /\ UNCHANGED <<grTasks, grHistory>>

(* add_new_nodes_edges: the ones that are gone are not drawn.                *)
NewNodes(l) ==
    LET there == SelectSeq(l.new, LAMBDA k : k \in GrPresent)
    IN  [i \in DOMAIN there |-> [key |-> there[i], state |-> grTasks[there[i]], visible |-> TRUE]]
NewEdges(l) ==
    LET there == SelectSeq(l.newEdges, LAMBDA e : {e[1], e[2]} \subseteq DOMAIN l.x)
    IN  [i \in DOMAIN there |-> [edge |-> there[i], visible |-> TRUE]]
AddNewNodesEdges(l, reset) ==
    IF l.new = <<>> /\ ~reset THEN grPlot
    ELSE IF reset \/ grPlot.nodes = <<>>
    THEN [grPlot EXCEPT !.nodes = NewNodes(l), !.edges = NewEdges(l)]
    ELSE [grPlot EXCEPT !.nodes = @ \o NewNodes(l), !.edges = @ \o NewEdges(l)]

(* patch_updates: what concerns nodes that are drawn.  The lists of nodes    *)
(* and edges to hide are not emptied: they are hidden, and counted, again    *)
(* with every update until the next reset.                                   *)
Patched(p, l, invisible) ==
    LET hide == l.hidden \cap DOMAIN p.nodes
        States(nodes) == FoldLeft(LAMBDA ns, u : IF u[1] \in DOMAIN ns THEN [ns EXCEPT ![u[1]].state = u[2]]
                                                 ELSE ns, nodes, l.states)
        nodes == States(p.nodes)
    IN  [nodes |-> [i \in DOMAIN nodes |-> IF i \in hide THEN [nodes[i] EXCEPT !.visible = FALSE]
                                           ELSE nodes[i]],
         edges |-> [i \in DOMAIN p.edges |-> IF i \in l.hiddenEdges
                                             THEN [p.edges[i] EXCEPT !.visible = FALSE]
                                             ELSE p.edges[i]],
         invisible |-> invisible + Cardinality(hide)]

(* update: every so often the plot starts anew without the hidden nodes.     *)
UpdatePlot ==
    /\ grOpen
    /\ LET reset == 2 * grPlot.invisible > Len(grPlot.nodes)
           l == IF reset THEN ResetIndex(grLayout) ELSE grLayout
       IN  /\ grPlot' = Patched(AddNewNodesEdges(l, reset), l, IF reset THEN 0 ELSE grPlot.invisible)
           /\ grLayout' = [l EXCEPT !.new = <<>>, !.newEdges = <<>>, !.states = <<>>]
           /\ grSkipped' = (\/ ~reset /\ grSkipped
                            \/ Len(NewNodes(l)) < Len(l.new)
                            \/ Len(NewEdges(l)) < Len(l.newEdges))
    /\ UNCHANGED <<grTasks, grOpen, grSilent, grGone, grMoves>>
-----------------------------------------------------------------------------
(* The Scheduler *)

(* update_graph: new tasks.  The plugins are told, then all tasks are set to *)
(* processing, which is no transition.                                       *)
AddTasks(keys) ==
    /\ grMoves < MaxGraphMoves /\ grMoves' = grMoves + 1
    /\ keys # {} /\ keys \cap GrPresent = {}
    /\ LET tasks == GrPresent \cup keys
       IN  /\ UNION {GrDeps[k] : k \in keys} \subseteq tasks
           /\ grTasks' = [k \in tasks |-> "processing"]
           /\ IF grOpen THEN \E order \in Orders(keys) : grLayout' = PlaceAll(grLayout, tasks, order)
              ELSE UNCHANGED grLayout
    /\ grSilent' = (grSilent \ keys) \cup {k \in GrPresent : grTasks[k] # "processing"}
    /\ UNCHANGED <<grPlot, grOpen, grSkipped, grGone>>

GraphMoves == {<<"processing", "memory">>, <<"processing", "erred">>, <<"memory", "released">>}
TransitionTask(k, move) ==
    /\ grMoves < MaxGraphMoves /\ grMoves' = grMoves + 1
    /\ k \in GrPresent /\ grTasks[k] = move[1]
    /\ grTasks' = [grTasks EXCEPT ![k] = move[2]]
    /\ grLayout' = IF grOpen THEN StateTold(grLayout, k, move[2]) ELSE grLayout
    /\ grSilent' = grSilent \ {k}
    /\ UNCHANGED <<grPlot, grOpen, grSkipped, grGone>>

(* A task nobody wants or depends on; one that is processed is released      *)
(* first.                                                                    *)
ForgetTask(k) ==
    /\ grMoves < MaxGraphMoves /\ grMoves' = grMoves + 1
    /\ k \in GrPresent /\ \A j \in GrPresent : k \notin GrDeps[j]
    /\ grTasks' = Less(grTasks, {k})
    /\ grLayout' = IF ~grOpen THEN grLayout
                   ELSE ForgottenTold(IF grTasks[k] = "processing"
                                      THEN StateTold(grLayout, k, "released") ELSE grLayout, k)
    /\ grSilent' = grSilent \ {k} /\ grGone' = TRUE
    /\ UNCHANGED <<grPlot, grOpen, grSkipped>>

GraphNext ==
    \/ OpenPlot \/ ClosePlot \/ UpdatePlot
    \/ \E keys \in SUBSET GrKeys : AddTasks(keys)
    \/ \E k \in GrKeys : ForgetTask(k) \/ \E move \in GraphMoves : TransitionTask(k, move)

GraphSpec == GrInit /\ [][GraphNext]_grVars
-----------------------------------------------------------------------------
(* Is everything that happened drawn?                                        *)
Drawn == grLayout.new = <<>> /\ grLayout.states = <<>>
         /\ \A i \in grLayout.hidden \cap DOMAIN grPlot.nodes : ~grPlot.nodes[i].visible

(* While the two sides agree on the indices, the plot shows each task that   *)
(* was drawn, at its index, with the state last reported, and nothing else   *)
(* once it is up to date: resets, repeated hiding and tasks that are         *)
(* submitted again do not mix up nodes or edges.                             *)
PlotShowsTasks ==
    grOpen /\ ~grSkipped =>
        /\ \A k \in DOMAIN grLayout.index :
              grLayout.index[k] \in DOMAIN grPlot.nodes =>
                  LET node == grPlot.nodes[grLayout.index[k]]
                  IN  /\ node.key = k /\ node.visible
                      /\ Drawn /\ k \notin grSilent => node.state = grTasks[k]
        /\ \A e \in DOMAIN grLayout.edges :
              grLayout.edges[e] \in DOMAIN grPlot.edges =>
                  grPlot.edges[grLayout.edges[e]] = [edge |-> e, visible |-> TRUE]
        /\ Drawn => {grPlot.nodes[i].key : i \in {j \in DOMAIN grPlot.nodes : grPlot.nodes[j].visible}}
                        = GrPresent

(* The layout knows exactly the tasks and the edges between them, so it is   *)
(* empty when all are forgotten.  Edges lead to the right, no two leaves are *)
(* at the same height, and tasks that belong at the same place are stacked   *)
(* apart as long as nothing was forgotten.  (That any two tasks are apart,   *)
(* as test_unique_positions has it, is not so: a task may belong where       *)
(* another was stacked.)                                                     *)
PlaceOf(k) == <<grLayout.x[k], grLayout.y[k]>>
PlacesMakeSense ==
    \A j, k \in DOMAIN grLayout.x :
        /\ j \in GrDeps[k] => grLayout.x[j] < grLayout.x[k]
        /\ j # k /\ GrDeps[j] \cup GrDeps[k] = {} => grLayout.y[j] # grLayout.y[k]
        /\ j # k /\ grLayout.home[j] = grLayout.home[k] /\ ~grGone => PlaceOf(j) # PlaceOf(k)
LayoutFits ==
    grOpen =>
        /\ DOMAIN grLayout.x = GrPresent /\ DOMAIN grLayout.index = GrPresent
        /\ DOMAIN grLayout.edges = UNION {{<<d, k>> : d \in GrDeps[k]} : k \in GrPresent}
        /\ GrPresent = {} => grLayout.collision = <<>>
        /\ PlacesMakeSense
=============================================================================
