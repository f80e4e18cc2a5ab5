----------------------------- MODULE NodeConfig -----------------------------
(***************************************************************************)
(* The first half of the DaosSystem reconcile                              *)
(* (internal/controller/daossystem_controller.go, internal/discovery):     *)
(* which nodes get a server, and which of them hold the management         *)
(* service.                                                                *)
(*                                                                         *)
(* A pass lists the selected nodes, leaves out those that expose the same  *)
(* physical drive, hands the management-service role to the recorded nodes *)
(* first and then by name, and writes one server configuration and one     *)
(* workload per node, node by node.  The role is recorded only by the      *)
(* status update at its end.  Nothing is removed for a node that is left   *)
(* out or no longer selected.  What drives a node has is read from         *)
(* annotations that hostprep rewrites; it may find fewer than before.      *)
(*                                                                         *)
(* A server reads its configuration when its pod starts.  One that finds   *)
(* itself among the replicas founds a management service.                  *)
(***************************************************************************)
EXTENDS Naturals, FiniteSets, DmgJob

CONSTANTS
    NumNodes,    \* the nodes are 1..NumNodes, in the order of their names
    Dsn,         \* the serials of a node's drives, in a sequence
    MsReplicas,  \* spec.msReplicas, which the API restricts to 1, 3 or 5
    SpecBdevs,   \* does the spec list the devices, so that node facts are not needed?
    First,       \* the nodes selected at the start
    MaxJoins, MaxLeaves, MaxLosses, MaxFaults, MaxEdits,   \* bounds
    MaxTroubles    \* bound: leaves, losses, faults and edits together

Nodes == 1..NumNodes

ASSUME NodeConfigAssumption ==
    /\ NumNodes \in Nat /\ MsReplicas \in {1, 3, 5} /\ SpecBdevs \in BOOLEAN
    /\ DOMAIN Dsn = Nodes /\ First \subseteq Nodes
    /\ {MaxJoins, MaxLeaves, MaxLosses, MaxFaults, MaxEdits, MaxTroubles} \subseteq Nat

ASSUME NoneIsNoRole == \A S \in SUBSET Nodes : S # None

\* The parts of the spec that humans change here: spec.server.enabled, and
\* whether spec.engines lists any engine.
Specs == [enabled : BOOLEAN, engines : BOOLEAN]

\* Drives are numbered per node, in the order of its serials.
Drives == UNION {DOMAIN Dsn[n] : n \in Nodes}

\* A node's ConfigMap: the management-service replicas and the node's drives.
Configs == [ms : SUBSET Nodes, bdevs : SUBSET Drives]

VARIABLES
    spec, selected,             \* the spec; the nodes matching the selector
    known,                      \* the drives in a node's annotations
    roles,                      \* status.msReplicaNodes
    pc, sys, view, facts,       \* the pass: the spec, nodes and facts it read
    wroles, todo,               \* the role it hands out; the nodes still to render
    config, workload,           \* the ConfigMaps; nodes with a StatefulSet
    founders, first, steady,    \* history: see below
    hidden, clashed, emptied,
    joins, leaves, losses, faults, edits

memory  == <<pc, sys, view, facts, wroles, todo>>
history == <<founders, first, steady, hidden, clashed, emptied>>
bounds  == <<joins, leaves, losses, faults, edits>>
vars    == <<spec, selected, known, roles, memory, config, workload, history, bounds>>

\* founders: nodes whose server founded a management service; first: the role as
\* first written into a configuration; steady: nodes that got the role and have
\* been selected and free of conflicts since; hidden: nodes that left or whose
\* annotations lost a drive; clashed: a node of first exposed a drive of another;
\* emptied: spec.engines was empty once.

-----------------------------------------------------------------------------
(* Drive conflicts *)

Serials(nodes, shown) == UNION { {<<n, i>> : i \in shown[n]} : n \in nodes }

\* variant: only the first drive of a node is looked at
DriveConflictsFirst(nodes, shown) ==
    {n \in nodes : \E m \in nodes \ {n} : 1 \in shown[n] \cap shown[m] /\ Dsn[n][1] = Dsn[m][1]}

\* The nodes with a serial seen more than once; shown: the drives annotated.
DriveConflicts(nodes, shown) ==
    {n \in nodes : \E i \in shown[n] : \E s \in Serials(nodes, shown) :
                     s # <<n, i>> /\ Dsn[s[1]][s[2]] = Dsn[n][i]}

Healthy(nodes, shown) == nodes \ DriveConflicts(nodes, shown)

Room == leaves + losses + faults + edits < MaxTroubles

-----------------------------------------------------------------------------
(* The pass. *)

NoFacts == [n \in Nodes |-> {}]

Return ==
    /\ pc' = "idle" /\ sys' = None /\ view' = {} /\ facts' = NoFacts /\ wroles' = {} /\ todo' = {}

BeginPass ==
    /\ pc = "idle"
    /\ pc' = "nodes" /\ sys' = spec /\ view' = selected /\ facts' = known
    /\ UNCHANGED <<spec, selected, known, roles, wroles, todo, config, workload, history, bounds>>

\* The stored status, rebuilt from nothing but the new role.
Record(role) ==
    /\ roles' = role
    /\ steady' = (steady \cup role) \cap Healthy(selected, known)

\* InsufficientNodes and NoEngines: the status is stored without a role.
TooFewNodes ==
    /\ pc = "nodes" /\ (Cardinality(view) < MsReplicas \/ ~sys.engines)
    /\ Record({}) /\ Return
    /\ UNCHANGED <<spec, selected, known, config, workload, founders, first, hidden, clashed, emptied, bounds>>

\* variant: one node too few is taken
ByNameShort(nodes, k) == {n \in nodes : Cardinality({m \in nodes : m < n}) + 1 < k}

\* The k first of a set of nodes by name.
ByName(nodes, k) == {n \in nodes : Cardinality({m \in nodes : m < n}) < k}

\* variants: the role goes by name alone; the recorded nodes are not counted
RoleByName == ByName(Healthy(view, facts), MsReplicas)
RoleUncounted == (roles \cap Healthy(view, facts)) \cup RoleByName

\* The recorded nodes keep the role, then the first healthy nodes by name fill up.
Role ==
    LET healthy == Healthy(view, facts)
        kept    == roles \cap healthy
    IN  kept \cup ByName(healthy \ kept, MsReplicas - Cardinality(kept))

\* InsufficientHealthyNodes stores what it has.
TooFewHealthy ==
    /\ pc = "nodes" /\ Cardinality(view) >= MsReplicas /\ sys.engines
    /\ Cardinality(Role) < MsReplicas
    /\ Record(Role) /\ Return
    /\ UNCHANGED <<spec, selected, known, config, workload, founders, first, hidden, clashed, emptied, bounds>>

Choose ==
    /\ pc = "nodes" /\ Cardinality(view) >= MsReplicas /\ sys.engines
    /\ Cardinality(Role) >= MsReplicas
    /\ wroles' = Role /\ todo' = view /\ pc' = "render"
    /\ UNCHANGED <<spec, selected, known, roles, sys, view, facts, config, workload, history, bounds>>

\* Neither excluded for a shared drive nor waiting for node facts.
Renderable(n) == n \in Healthy(view, facts) /\ (SpecBdevs \/ facts[n] # {})

\* The drives of its configuration: those the spec names, or those annotated.
Bdevs(n) == IF SpecBdevs THEN DOMAIN Dsn[n] ELSE facts[n]

\* The node's StatefulSet; without servers it is removed, also from a node that is
\* left out.
EnsureServer(n) ==
    IF ~sys.enabled THEN workload \ {n}
    ELSE IF Renderable(n) THEN workload \cup {n} ELSE workload

\* From now on a node of the first role exposes a drive of another, or did before.
NoteClash == clashed' = (clashed \/ (first' # None /\ first' \cap DriveConflicts(selected', known') # {}))

\* One node, in the order of their names: its ConfigMap and its workload.
Render ==
    /\ pc = "render" /\ todo # {}
    /\ LET n == CHOOSE m \in todo : \A k \in todo : m <= k
       IN  /\ config' = IF Renderable(n) THEN [config EXCEPT ![n] = [ms |-> wroles, bdevs |-> Bdevs(n)]]
                        ELSE config
           /\ workload' = EnsureServer(n)
           /\ first' = IF first = None /\ Renderable(n) THEN wroles ELSE first
           /\ todo' = todo \ {n}
    /\ UNCHANGED <<spec, selected, known, roles, pc, sys, view, facts, wroles, founders, steady, hidden, emptied, bounds>>
    /\ NoteClash

UpdateStatus ==
    /\ pc = "render" /\ todo = {}
    /\ Record(wroles) /\ Return
    /\ UNCHANGED <<spec, selected, known, config, workload, founders, first, hidden, clashed, emptied, bounds>>

PassEnds ==
    /\ pc # "idle" /\ faults < MaxFaults /\ Room
    /\ faults' = faults + 1
    /\ Return
    /\ UNCHANGED <<spec, selected, known, roles, config, workload, history, joins, leaves, losses, edits>>

-----------------------------------------------------------------------------
(* The cluster. *)

\* What a change of the nodes or their annotations means for the nodes in charge.
Changes ==
    /\ UNCHANGED <<spec, roles, memory, config, workload, founders, first, emptied, faults, edits>>
    /\ steady' = steady \cap Healthy(selected', known') /\ NoteClash

\* A node gets the label of the selector.
Join(n) ==
    /\ n \notin selected /\ joins < MaxJoins
    /\ selected' = selected \cup {n} /\ joins' = joins + 1
    /\ UNCHANGED <<known, hidden, leaves, losses>> /\ Changes

\* A node loses it, or is removed from the cluster.
Leave(n) ==
    /\ n \in selected /\ leaves < MaxLeaves /\ Room
    /\ selected' = selected \ {n} /\ leaves' = leaves + 1
    /\ hidden' = hidden \cup {n}
    /\ UNCHANGED <<known, joins, losses>> /\ Changes

\* hostprep finds drives of a selected node that are bound now, with their serials.
FactsArrive(n) ==
    /\ n \in selected
    /\ \E d \in SUBSET (DOMAIN Dsn[n]) :
         known[n] \subseteq d /\ known[n] # d /\ known' = [known EXCEPT ![n] = d]
    /\ UNCHANGED <<selected, hidden, joins, leaves, losses>> /\ Changes

\* It rewrites the annotations of a node without some of the drives, or without any.
FactsLost(n) ==
    /\ losses < MaxLosses /\ Room /\ losses' = losses + 1
    /\ \E d \in SUBSET (DOMAIN Dsn[n]) :
         ~(known[n] \subseteq d) /\ known' = [known EXCEPT ![n] = d]
    /\ hidden' = hidden \cup {n}
    /\ UNCHANGED <<selected, joins, leaves>> /\ Changes

EditSpec ==
    /\ edits < MaxEdits /\ Room /\ edits' = edits + 1
    /\ spec' \in Specs \ {spec}
    /\ emptied' = (emptied \/ ~spec'.engines)
    /\ UNCHANGED <<selected, known, roles, memory, config, workload, founders, first, steady, hidden, clashed>>
    /\ UNCHANGED <<joins, leaves, losses, faults>>

\* The pod of a workload starts, or starts again.
PodStarts(n) ==
    /\ n \in workload
    /\ founders' = founders \cup ({n} \cap config[n].ms)
    /\ UNCHANGED <<spec, selected, known, roles, memory, config, workload, first, steady, hidden, clashed, emptied, bounds>>

-----------------------------------------------------------------------------
Init ==
    /\ spec = [enabled |-> TRUE, engines |-> TRUE] /\ selected = First /\ known = NoFacts /\ roles = {}
    /\ pc = "idle" /\ sys = None /\ view = {} /\ facts = NoFacts /\ wroles = {} /\ todo = {}
    /\ config = [n \in Nodes |-> [ms |-> {}, bdevs |-> {}]] /\ workload = {}
    /\ founders = {} /\ first = None /\ steady = {} /\ hidden = {} /\ clashed = FALSE /\ emptied = FALSE
    /\ joins = 0 /\ leaves = 0 /\ losses = 0 /\ faults = 0 /\ edits = 0

Operator == BeginPass \/ TooFewNodes \/ TooFewHealthy \/ Choose \/ Render \/ UpdateStatus

HostPrep == \E n \in Nodes : FactsArrive(n)

Next ==
    \/ Operator \/ PassEnds \/ HostPrep \/ EditSpec
    \/ \E n \in Nodes : Join(n) \/ Leave(n) \/ FactsLost(n) \/ PodStarts(n)

Spec == Init /\ [][Next]_vars

\* Passes repeat, and hostprep comes to annotate every drive of a node it runs on.
FairSpec == Spec /\ WF_vars(Operator) /\ WF_vars(HostPrep)

-----------------------------------------------------------------------------
(* Properties. *)

TypeOK ==
    /\ spec \in Specs /\ sys \in Specs \cup {None}
    /\ {selected, roles, view, wroles, workload, founders, steady, hidden} \subseteq SUBSET Nodes
    /\ known \in [Nodes -> SUBSET Drives] /\ facts \in [Nodes -> SUBSET Drives]
    /\ pc \in {"idle", "nodes", "render"} /\ todo \subseteq Nodes
    /\ config \in [Nodes -> Configs] /\ first \in (SUBSET Nodes) \cup {None}
    /\ Cardinality(roles) <= MsReplicas /\ clashed \in BOOLEAN /\ emptied \in BOOLEAN
    /\ joins \in 0..MaxJoins /\ leaves \in 0..MaxLeaves /\ losses \in 0..MaxLosses
    /\ faults \in 0..MaxFaults /\ edits \in 0..MaxEdits

\* No pass was cut short, no node left, spec.engines was never empty, and no node
\* of the first role exposed a drive of another.
Undisturbed == faults = 0 /\ leaves = 0 /\ ~emptied /\ ~clashed

\* Step 3 of Reconcile (daossystem_controller.go:232-236): no node bootstraps a
\* second system because it was added later or its annotations were rewritten.
OneSystem == first # None /\ Undisturbed => founders \subseteq first

\* Step 3 of Reconcile (daossystem_controller.go:231): while no node leaves and
\* spec.engines is not emptied, a recorded replica that is free of conflicts keeps
\* the role, passes cut short or not, and with or without its annotations.
RoleKept == leaves = 0 /\ ~emptied => steady \subseteq roles

\* Step 3 of Reconcile (daossystem_controller.go:231), "the ones already recorded
\* keep the role": a recorded replica that stays selected and free of conflicts
\* does, whatever happens to the other nodes.
RecordedKeepRole == steady \subseteq roles

Share(n, m) == \E i \in config[n].bdevs, j \in config[m].bdevs : Dsn[n][i] = Dsn[m][j]

\* bdev-dsn (api/v1alpha1/constants.go:38-39): two nodes do not both get a server
\* on the same physical drive, while servers wait for the annotations of their node
\* and neither node left or had a drive taken out of its annotations; whatever
\* happens to other nodes, and however passes and annotations interleave.
NoSharedDrive ==
    ~SpecBdevs => \A n, m \in workload \ hidden : n # m => ~Share(n, m)

\* Steps 3 and 5 of Reconcile: when the cluster comes to rest, every node that can
\* run a server has one, configured with the recorded role and all its drives.
ConfigsAgree ==
    <>[](spec.enabled /\ spec.engines /\ Cardinality(Healthy(selected, known)) >= MsReplicas) =>
        <>[](\A n \in Healthy(selected, known) :
               n \in workload /\ config[n] = [ms |-> roles, bdevs |-> known[n]])
=============================================================================
