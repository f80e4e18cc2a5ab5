------------------------- MODULE NodeConfig_proofs -------------------------
(***************************************************************************)
(* Proofs about NodeConfig, for any number of nodes and drives, however    *)
(* drives are shared, and any number of joins, leaves, edits, faults and   *)
(* rewritten annotations.                                                  *)
(***************************************************************************)
EXTENDS NodeConfig, FiniteSetTheorems, TLAPS

USE NodeConfigAssumption

\* Sets of nodes are finite, so their cardinalities are numbers.
LEMMA NodeSets ==
    ASSUME NEW S \in SUBSET Nodes
    PROVE  IsFiniteSet(S) /\ Cardinality(S) \in Nat
<1>1. IsFiniteSet(Nodes)
  BY FS_Interval DEF Nodes
<1>2. IsFiniteSet(S)
  BY <1>1, FS_Subset, Zenon
<1> QED BY <1>2, FS_CardinalityType, Zenon

\* ByName takes at most k nodes: the number of smaller names is a different number
\* below k for each node it takes.
LEMMA FirstByName ==
    ASSUME NEW S \in SUBSET Nodes, NEW k \in Int
    PROVE  /\ ByName(S, k) \subseteq S
           /\ k <= 0 => ByName(S, k) = {}
           /\ k >= 0 => Cardinality(ByName(S, k)) <= k
<1> DEFINE below(n) == {m \in S : m < n}
           B == ByName(S, k)
           f == [n \in B |-> Cardinality(below(n))]
<1>1. \A n \in S : Cardinality(below(n)) \in Nat /\ IsFiniteSet(below(n))
  BY NodeSets, Zenon
<1>2. B = {n \in S : Cardinality(below(n)) < k}
  BY Zenon DEF ByName
<1>0. S \subseteq Nat /\ B \subseteq S
  BY <1>2 DEF Nodes
<1> HIDE DEF B
<1>3. k <= 0 => B = {}
  BY <1>1, <1>2
<1>4. ASSUME k >= 0 PROVE Cardinality(B) <= k
  <2>1. f \in [B -> 0..(k - 1)]
    BY <1>1, <1>2
  <2>2. ASSUME NEW n \in B, NEW m \in B, n < m PROVE f[n] # f[m]
    <3>1. n \in S /\ m \in S /\ n \in Nat /\ m \in Nat
      BY <1>0, Zenon
    <3>2. below(n) \in SUBSET below(m) /\ n \in below(m) /\ n \notin below(n)
      <4>1. \A x \in S : x \in Nat /\ (x < n => x < m)
        BY <1>0, <2>2, <3>1
      <4>2. ~(n < n)
        BY <3>1
      <4> QED BY <2>2, <3>1, <4>1, <4>2, Zenon
    <3>3. Cardinality(below(n)) # Cardinality(below(m))
      BY <1>1, <3>1, <3>2, FS_Subset, Zenon
    <3> QED BY <3>3, Zenon
  <2>3. \A n, m \in B : f[n] = f[m] => n = m
    <3>1. B \subseteq Nat
      BY <1>0, Zenon
    <3>2. ASSUME NEW n \in B, NEW m \in B, f[n] = f[m] PROVE n = m
      <4>1. n < m \/ m < n \/ n = m
        BY <3>1
      <4> QED BY <2>2, <3>2, <4>1, Zenon
    <3> QED BY <3>2, Zenon
  <2>4. f \in Injection(B, 0..(k - 1))
    BY <2>1, <2>3, Zenon DEF Injection, IsInjective
  <2>5. IsFiniteSet(0..(k - 1)) /\ Cardinality(0..(k - 1)) = k
    <3>1. /\ IsFiniteSet(0..(k - 1))
          /\ Cardinality(0..(k - 1)) = IF 0 > k - 1 THEN 0 ELSE (k - 1) - 0 + 1
      BY FS_Interval, 0 \in Int, k - 1 \in Int, Zenon
    <3> QED BY <1>4, <3>1
  <2> QED BY <2>4, <2>5, FS_Injection
<1> QED BY <1>0, <1>3, <1>4, Zenon DEF B

\* A node with a drive that another node in view has too is in conflict.
LEMMA SharersConflict ==
    ASSUME NEW S, NEW shown, NEW n \in S, NEW m \in S, n # m,
           NEW i \in shown[n], NEW j \in shown[m], Dsn[n][i] = Dsn[m][j]
    PROVE  n \in DriveConflicts(S, shown)
<1>2. <<m, j>> \in Serials(S, shown) /\ <<m, j>> # <<n, i>>
  BY DEF Serials
<1>3. <<m, j>>[1] = m /\ <<m, j>>[2] = j
  BY Zenon
<1> QED BY <1>2, <1>3, Zenon DEF DriveConflicts

-----------------------------------------------------------------------------
(***************************************************************************)
(* Types.  The number of recorded nodes stays within msReplicas because    *)
(* the role a pass hands out does.                                         *)
(***************************************************************************)
TypeInv == TypeOK /\ Cardinality(wroles) <= MsReplicas

\* The healthy nodes are nodes.
LEMMA HealthyType ==
    ASSUME NEW S \in SUBSET Nodes, NEW T
    PROVE  Healthy(S, T) \in SUBSET Nodes /\ Healthy(S, T) \subseteq S
  BY Zenon DEF Healthy

\* The role of a pass goes to healthy nodes, and to msReplicas of them at most.
LEMMA RoleType ==
    ASSUME TypeOK
    PROVE  /\ Role \in SUBSET Nodes /\ Role \subseteq Healthy(view, facts)
           /\ roles \cap Healthy(view, facts) \subseteq Role
           /\ Cardinality(Role) <= MsReplicas
<1> DEFINE healthy == Healthy(view, facts)
           kept == roles \cap healthy
           rest == ByName(healthy \ kept, MsReplicas - Cardinality(kept))
<1>1. healthy \in SUBSET Nodes /\ kept \in SUBSET Nodes /\ roles \in SUBSET Nodes
  BY HealthyType, Zenon DEF TypeOK
<1>2. /\ Cardinality(kept) \in Nat /\ Cardinality(roles) \in Nat /\ IsFiniteSet(kept)
      /\ Cardinality(kept) <= Cardinality(roles) /\ Cardinality(roles) <= MsReplicas
  BY <1>1, NodeSets, FS_Subset, Zenon DEF TypeOK
<1>3. MsReplicas - Cardinality(kept) \in Int /\ MsReplicas - Cardinality(kept) >= 0
  BY <1>2
<1>4. /\ rest \subseteq healthy \ kept
      /\ Cardinality(rest) <= MsReplicas - Cardinality(kept)
  BY <1>1, <1>3, FirstByName, Zenon
<1>5. rest \in SUBSET Nodes /\ IsFiniteSet(rest) /\ Cardinality(rest) \in Nat
  BY <1>1, <1>4, NodeSets, Zenon
<1>6. kept \cap rest = {}
  BY <1>4, Zenon
<1>7. Cardinality(kept \cup rest) <= MsReplicas
  <2>1. Cardinality(kept \cup rest) = Cardinality(kept) + Cardinality(rest) - Cardinality(kept \cap rest)
    BY <1>2, <1>5, FS_Union, Zenon
  <2>2. Cardinality(kept \cap rest) = 0
    BY <1>6, FS_EmptySet, Zenon
  <2> QED BY <1>2, <1>4, <1>5, <2>1, <2>2
<1>8. Role = kept \cup rest
  BY Zenon DEF Role
<1> QED BY <1>1, <1>4, <1>5, <1>7, <1>8, Zenon

\* A set of nodes has a first node by name.
LEMMA FirstNode ==
    ASSUME NEW S \in SUBSET Nodes, S # {}
    PROVE  \E m \in S : \A k \in S : m <= k
<1>1. S \subseteq Nat
  BY DEF Nodes
<1>2. PICK m \in S : \A k \in S : ~(<<k, m>> \in OpToRel(<, Nat))
  BY <1>1, NatLessThanWellFounded, WFMin, Zenon
<1>3. \A k \in S : ~(k < m)
  BY <1>1, <1>2, Zenon DEF OpToRel
<1> QED BY <1>1, <1>3

\* The node a pass renders next is one of those still to render.
LEMMA NextNode ==
    ASSUME TypeOK, todo # {}
    PROVE  /\ (CHOOSE m \in todo : \A k \in todo : m <= k) \in todo
           /\ todo \in SUBSET Nodes
  BY FirstNode, Zenon DEF TypeOK

\* Types are kept by every step.
LEMMA TypeStep == TypeInv /\ [Next]_vars => TypeInv'
<1> SUFFICES ASSUME TypeInv, [Next]_vars PROVE TypeInv'
  BY Zenon
<1>t. TypeOK
  BY Zenon DEF TypeInv
<1>e. Cardinality({}) = 0
  BY FS_EmptySet, Zenon
<1> USE DEF memory, history, bounds
<1>s. /\ spec \in Specs /\ sys \in Specs \cup {None}
      /\ selected \in SUBSET Nodes /\ hidden \in SUBSET Nodes /\ roles \in SUBSET Nodes
      /\ view \in SUBSET Nodes /\ known \in [Nodes -> SUBSET Drives] /\ wroles \in SUBSET Nodes
      /\ workload \in SUBSET Nodes /\ founders \in SUBSET Nodes /\ steady \in SUBSET Nodes
      /\ Cardinality(roles) <= MsReplicas /\ Cardinality(wroles) <= MsReplicas
  BY Zenon DEF TypeInv, TypeOK
<1>f. NoFacts \in [Nodes -> SUBSET Drives]
  BY DEF NoFacts
<1>r. ASSUME NEW role \in SUBSET Nodes, Cardinality(role) <= MsReplicas, Record(role), Return,
             UNCHANGED <<spec, selected, known, config, workload, founders, first, hidden, clashed, emptied, bounds>>
      PROVE  TypeInv'
  <2>1. steady' \in SUBSET Nodes /\ roles' \in SUBSET Nodes /\ Cardinality(roles') <= MsReplicas
    BY <1>r, <1>s, HealthyType, Zenon DEF Record
  <2> QED BY <1>r, <1>t, <1>e, <1>f, <2>1 DEF Return, TypeInv, TypeOK
<1>1. CASE BeginPass
  BY <1>1, <1>t, <1>s, Zenon DEF BeginPass, TypeInv, TypeOK
<1>2. CASE TooFewNodes
  BY <1>2, <1>e, <1>r DEF TooFewNodes
<1>3. CASE TooFewHealthy
  BY <1>3, <1>t, <1>r, RoleType, Zenon DEF TooFewHealthy
<1>4. CASE Choose
  BY <1>4, <1>t, <1>s, RoleType, Zenon DEF Choose, TypeInv, TypeOK
<1>5. CASE Render
  <2> DEFINE n == CHOOSE m \in todo : \A k \in todo : m <= k
  <2>1. n \in Nodes /\ todo \in SUBSET Nodes
    BY <1>5, <1>t, NextNode, Zenon DEF Render
  <2>2. config' \in [Nodes -> Configs]
    <3>1. facts[n] \in SUBSET Drives /\ DOMAIN Dsn[n] \in SUBSET Drives
      BY <1>t, <2>1, Zenon DEF TypeOK, Drives
    <3>2. [ms |-> wroles, bdevs |-> Bdevs(n)] \in Configs
      BY <1>s, <3>1, Zenon DEF Configs, Bdevs
    <3> QED BY <1>5, <1>t, <2>1, <3>2, Zenon DEF Render, TypeOK
  <2>3. workload' \in SUBSET Nodes
    BY <1>5, <1>s, <2>1, Zenon DEF Render, EnsureServer
  <2>4. first' \in (SUBSET Nodes) \cup {None} /\ todo' \in SUBSET Nodes
    BY <1>5, <1>t, <1>s, <2>1, Zenon DEF Render, TypeOK
  <2>5. clashed' \in BOOLEAN
    BY <1>5, Zenon DEF Render, NoteClash
  <2> QED BY <1>5, <1>t, <1>s, <2>2, <2>3, <2>4, <2>5, Zenon DEF Render, TypeInv, TypeOK
<1>6. CASE UpdateStatus
  BY <1>6, <1>s, <1>r, Zenon DEF UpdateStatus
<1>7. CASE PassEnds
  <2>1. faults' \in 0..MaxFaults
    BY <1>7, <1>t DEF PassEnds, TypeOK
  <2> QED BY <1>7, <1>t, <1>s, <1>e, <1>f, <2>1 DEF PassEnds, Return, TypeInv, TypeOK
<1>c. ASSUME Changes PROVE steady' \in SUBSET Nodes /\ clashed' \in BOOLEAN
  BY <1>c, <1>s, Zenon DEF Changes, NoteClash
<1>8. ASSUME NEW n \in Nodes, Join(n) PROVE TypeInv'
  <2>1. joins' \in 0..MaxJoins
    BY <1>8, <1>t DEF Join, TypeOK
  <2>2. selected' \in SUBSET Nodes
    BY <1>8, <1>s, Zenon DEF Join
  <2>3. steady' \in SUBSET Nodes /\ clashed' \in BOOLEAN
    BY <1>8, <1>c, Zenon DEF Join
  <2> QED BY <1>8, <1>t, <1>s, <2>1, <2>2, <2>3 DEF Join, Changes, TypeInv, TypeOK
<1>9. ASSUME NEW n \in Nodes, Leave(n) PROVE TypeInv'
  <2>1. leaves' \in 0..MaxLeaves
    BY <1>9, <1>t DEF Leave, TypeOK
  <2>2. selected' \in SUBSET Nodes /\ hidden' \in SUBSET Nodes
    BY <1>9, <1>s, Zenon DEF Leave
  <2>3. steady' \in SUBSET Nodes /\ clashed' \in BOOLEAN
    BY <1>9, <1>c, Zenon DEF Leave
  <2> QED BY <1>9, <1>t, <1>s, <2>1, <2>2, <2>3 DEF Leave, Changes, TypeInv, TypeOK
<1>d. ASSUME NEW n \in Nodes, NEW d \in SUBSET (DOMAIN Dsn[n])
      PROVE  [known EXCEPT ![n] = d] \in [Nodes -> SUBSET Drives]
  <2>1. d \in SUBSET Drives
    BY Zenon DEF Drives
  <2> QED BY <1>s, <2>1, Zenon
<1>10. ASSUME NEW n \in Nodes, FactsArrive(n) PROVE TypeInv'
  <2>1. known' \in [Nodes -> SUBSET Drives]
    <3>1. PICK d \in SUBSET (DOMAIN Dsn[n]) : known' = [known EXCEPT ![n] = d]
      BY <1>10, Zenon DEF FactsArrive
    <3> QED BY <1>d, <3>1, Zenon
  <2>3. steady' \in SUBSET Nodes /\ clashed' \in BOOLEAN
    BY <1>10, <1>c, Zenon DEF FactsArrive
  <2> QED BY <1>10, <1>t, <1>s, <2>1, <2>3 DEF FactsArrive, Changes, TypeInv, TypeOK
<1>14. ASSUME NEW n \in Nodes, FactsLost(n) PROVE TypeInv'
  <2>1. known' \in [Nodes -> SUBSET Drives] /\ hidden' \in SUBSET Nodes
    <3>1. PICK d \in SUBSET (DOMAIN Dsn[n]) : known' = [known EXCEPT ![n] = d]
      BY <1>14, Zenon DEF FactsLost
    <3>2. hidden' = hidden \cup {n}
      BY <1>14, Zenon DEF FactsLost
    <3> QED BY <1>d, <1>s, <3>1, <3>2, Zenon
  <2>2. losses' \in 0..MaxLosses
    BY <1>14, <1>t DEF FactsLost, TypeOK
  <2>3. steady' \in SUBSET Nodes /\ clashed' \in BOOLEAN
    BY <1>14, <1>c, Zenon DEF FactsLost
  <2> QED BY <1>14, <1>t, <1>s, <2>1, <2>2, <2>3 DEF FactsLost, Changes, TypeInv, TypeOK
<1>11. CASE EditSpec
  <2>1. edits' \in 0..MaxEdits /\ spec' \in Specs
    BY <1>11, <1>t DEF EditSpec, TypeOK
  <2>2. emptied' \in BOOLEAN
    BY <1>11, Zenon DEF EditSpec
  <2> QED BY <1>11, <1>t, <1>s, <2>1, <2>2, Zenon DEF EditSpec, TypeInv, TypeOK
<1>12. ASSUME NEW n \in Nodes, PodStarts(n) PROVE TypeInv'
  <2>1. founders' \in SUBSET Nodes
    BY <1>12, <1>s, Zenon DEF PodStarts
  <2> QED BY <1>12, <1>t, <1>s, <2>1 DEF PodStarts, TypeInv, TypeOK
<1>13. CASE UNCHANGED vars
  BY <1>13, <1>t, <1>s, Zenon DEF vars, TypeInv, TypeOK
<1> QED BY <1>1, <1>2, <1>3, <1>4, <1>5, <1>6, <1>7, <1>8, <1>9, <1>10, <1>11, <1>12, <1>13, <1>14, Zenon
        DEF Next, Operator, HostPrep

\* The initial state is well typed.
LEMMA InitType == Init => TypeInv
<1> SUFFICES ASSUME Init PROVE TypeInv
  BY Zenon
<1>1. Cardinality({}) <= MsReplicas
  BY FS_EmptySet
<1>4. Cardinality(roles) <= MsReplicas /\ Cardinality(wroles) <= MsReplicas
  BY <1>1, Zenon DEF Init
<1>5. {selected, roles, view, wroles, workload, founders, steady, hidden} \subseteq SUBSET Nodes
  BY Zenon DEF Init
<1>2. spec \in Specs /\ config \in [Nodes -> Configs]
  BY Zenon DEF Init, Specs, Configs
<1>3. /\ joins \in 0..MaxJoins /\ leaves \in 0..MaxLeaves /\ losses \in 0..MaxLosses
      /\ faults \in 0..MaxFaults /\ edits \in 0..MaxEdits
  BY DEF Init
<1>8. known \in [Nodes -> SUBSET Drives] /\ facts \in [Nodes -> SUBSET Drives]
  BY Zenon DEF Init, NoFacts
<1>6. /\ sys \in Specs \cup {None} /\ pc = "idle" /\ todo \subseteq Nodes
      /\ first \in (SUBSET Nodes) \cup {None}
  BY Zenon DEF Init
<1>7. emptied \in BOOLEAN /\ clashed \in BOOLEAN
  BY Zenon DEF Init
<1> QED BY <1>2, <1>3, <1>4, <1>5, <1>6, <1>7, <1>8, Zenon DEF TypeInv, TypeOK

\* TypeOK of NodeConfig for any number of nodes; it holds the bound on the number of
\* recorded replicas (daossystem_controller.go:247).
THEOREM Typing == Spec => []TypeOK
<1>1. TypeInv => TypeOK
  BY Zenon DEF TypeInv
<1> QED BY <1>1, InitType, TypeStep, PTL DEF Spec

-----------------------------------------------------------------------------
(***************************************************************************)
(* Shared drives.  Of a node that is not hidden, what a pass read is part  *)
(* of what is there now, and what its server is configured with was there  *)
(* when the pass began.  So a pass sees each drive in use by such a node.  *)
(***************************************************************************)
Current(n) == n \in selected /\ facts[n] \subseteq known[n]

InSight(n) ==
    /\ n \in selected /\ config[n].bdevs \subseteq known[n]
    /\ pc # "idle" => n \in view /\ config[n].bdevs \subseteq facts[n]

Seen ==
    /\ \A n \in view \ hidden : Current(n)
    /\ ~SpecBdevs => \A n \in workload \ hidden : InSight(n)

DriveInv == TypeInv /\ Seen /\ NoSharedDrive

\* Hidden nodes stay hidden, and what the others had is still there.
LEMMA OthersKeep ==
    ASSUME TypeOK, [Next]_vars
    PROVE  /\ hidden \subseteq hidden'
           /\ \A n \in selected \ hidden' : n \in selected' /\ known[n] \subseteq known'[n]
<1> USE DEF history, Changes
<1>k. known \in [Nodes -> SUBSET Drives] /\ selected \in SUBSET Nodes
  BY Zenon DEF TypeOK
<1>1. ASSUME NEW n \in Nodes, Leave(n)
      PROVE  hidden \subseteq hidden' /\ \A m \in selected \ hidden' : m \in selected' /\ known[m] \subseteq known'[m]
  BY <1>1, Zenon DEF Leave
<1>2. ASSUME NEW n \in Nodes, FactsLost(n)
      PROVE  hidden \subseteq hidden' /\ \A m \in selected \ hidden' : m \in selected' /\ known[m] \subseteq known'[m]
  <2>1. PICK d : known' = [known EXCEPT ![n] = d]
    BY <1>2, Zenon DEF FactsLost
  <2>2. \A m \in Nodes \ {n} : known'[m] = known[m]
    BY <1>k, <2>1, Zenon
  <2> QED BY <1>2, <1>k, <2>2, Zenon DEF FactsLost
<1>3. ASSUME NEW n \in Nodes, FactsArrive(n)
      PROVE  hidden \subseteq hidden' /\ \A m \in selected \ hidden' : m \in selected' /\ known[m] \subseteq known'[m]
  <2>1. PICK d : known' = [known EXCEPT ![n] = d] /\ known[n] \subseteq d
    BY <1>3, Zenon DEF FactsArrive
  <2>2. \A m \in Nodes : known[m] \subseteq known'[m]
    BY <1>k, <2>1, Zenon
  <2> QED BY <1>3, <1>k, <2>2, Zenon DEF FactsArrive
<1>4. ASSUME NEW n \in Nodes, Join(n) \/ PodStarts(n)
      PROVE  hidden' = hidden /\ selected \subseteq selected' /\ known' = known
  BY <1>4, Zenon DEF Join, PodStarts
<1>5. CASE Operator \/ PassEnds \/ EditSpec \/ UNCHANGED vars
  BY <1>5, Zenon DEF Operator, BeginPass, TooFewNodes, TooFewHealthy, Choose, Render, UpdateStatus, PassEnds,
     EditSpec, vars
<1> QED BY <1>1, <1>2, <1>3, <1>4, <1>5, Zenon DEF Next, HostPrep

\* What a pass writes for one node.
LEMMA RenderOne ==
    ASSUME TypeInv, Render
    PROVE  \E n \in Nodes :
             /\ UNCHANGED <<selected, known, view, facts, pc, hidden>> /\ pc # "idle"
             /\ workload' \subseteq workload \cup {n} /\ \A m \in Nodes \ {n} : config'[m] = config[m]
             /\ ~Renderable(n) => workload' \subseteq workload /\ config' = config
             /\ Renderable(n) => config'[n] = [ms |-> wroles, bdevs |-> Bdevs(n)]
<1> DEFINE n == CHOOSE m \in todo : \A k \in todo : m <= k
<1>1. n \in Nodes
  BY NextNode, Zenon DEF Render, TypeInv
<1>2. config' = IF Renderable(n) THEN [config EXCEPT ![n] = [ms |-> wroles, bdevs |-> Bdevs(n)]] ELSE config
  BY Zenon DEF Render
<1>3. /\ UNCHANGED <<selected, known, view, facts, pc, hidden>> /\ pc # "idle"
      /\ workload' \subseteq workload \cup {n} /\ (~Renderable(n) => workload' \subseteq workload)
  BY Zenon DEF Render, EnsureServer
<1>4. config \in [Nodes -> Configs]
  BY Zenon DEF TypeInv, TypeOK
<1> HIDE DEF n
<1>5. \A m \in Nodes \ {n} : config'[m] = config[m]
  BY <1>1, <1>2, <1>4, Zenon
<1>6. Renderable(n) => config'[n] = [ms |-> wroles, bdevs |-> Bdevs(n)]
  BY <1>1, <1>2, <1>4, Zenon
<1> QED BY <1>1, <1>2, <1>3, <1>5, <1>6, Zenon

\* Every step keeps the drives in use in sight of a pass.
LEMMA SeenStep == ASSUME TypeInv, TypeInv', Seen, [Next]_vars PROVE Seen'
<1>k. /\ hidden \subseteq hidden'
      /\ \A n \in selected \ hidden' : n \in selected' /\ known[n] \subseteq known'[n]
  BY OthersKeep, Zenon DEF TypeInv
<1> USE DEF memory, history
<1>1. CASE BeginPass
  BY <1>1, Zenon DEF BeginPass, Seen, Current, InSight
<1>2. CASE TooFewNodes \/ TooFewHealthy \/ UpdateStatus \/ PassEnds
  BY <1>2, Zenon DEF TooFewNodes, TooFewHealthy, UpdateStatus, PassEnds, Return, Seen, Current, InSight
<1>3. CASE Choose
  BY <1>3, Zenon DEF Choose, Seen, Current, InSight
<1>4. CASE Render
  <2>1. PICK n \in Nodes :
             /\ UNCHANGED <<selected, known, view, facts, pc, hidden>> /\ pc # "idle"
             /\ workload' \subseteq workload \cup {n} /\ \A m \in Nodes \ {n} : config'[m] = config[m]
             /\ ~Renderable(n) => workload' \subseteq workload /\ config' = config
             /\ Renderable(n) => config'[n] = [ms |-> wroles, bdevs |-> Bdevs(n)]
    BY <1>4, RenderOne, Zenon
  <2>2. \A m \in view' \ hidden' : Current(m)'
    BY <2>1, Zenon DEF Seen, Current
  <2>3. ASSUME ~SpecBdevs, NEW m \in workload' \ hidden' PROVE InSight(m)'
    <3>1. CASE m \in workload /\ config'[m] = config[m]
      BY <2>1, <2>3, <3>1, Zenon DEF Seen, InSight
    <3>2. CASE m = n /\ Renderable(n)
      <4>1. m \in view /\ Current(m)
        BY <2>1, <2>3, <3>2, Zenon DEF Renderable, Healthy, Seen
      <4>2. config'[m].bdevs = facts[m]
        BY <2>1, <2>3, <3>2 DEF Bdevs
      <4> QED BY <2>1, <4>1, <4>2, Zenon DEF Current, InSight
    <3>3. workload \in SUBSET Nodes
      BY Zenon DEF TypeInv, TypeOK
    <3> QED BY <2>1, <2>3, <3>1, <3>2, <3>3, Zenon
  <2> QED BY <2>2, <2>3, Zenon DEF Seen
<1>5. ASSUME UNCHANGED <<view, facts, pc, workload, config>> PROVE Seen'
  <2>1. ASSUME NEW n \in view' \ hidden' PROVE Current(n)'
    BY <1>5, <1>k, <2>1, Zenon DEF Seen, Current
  <2>2. ASSUME ~SpecBdevs, NEW n \in workload' \ hidden' PROVE InSight(n)'
    BY <1>5, <1>k, <2>2, Zenon DEF Seen, InSight
  <2> QED BY <2>1, <2>2, Zenon DEF Seen
<1>6. ASSUME NEW n \in Nodes, Join(n) \/ FactsArrive(n) \/ FactsLost(n) \/ Leave(n) \/ PodStarts(n)
      PROVE  UNCHANGED <<view, facts, pc, workload, config>>
  BY <1>6, Zenon DEF Join, FactsArrive, FactsLost, Leave, PodStarts, Changes
<1>7. CASE EditSpec \/ UNCHANGED vars
  BY <1>5, <1>7, Zenon DEF EditSpec, vars
<1> QED BY <1>1, <1>2, <1>3, <1>4, <1>5, <1>6, <1>7, Zenon DEF Next, Operator, HostPrep

\* Every step keeps the drives in use apart.
LEMMA ApartStep == ASSUME TypeInv, Seen, NoSharedDrive, [Next]_vars PROVE NoSharedDrive'
<1> SUFFICES ASSUME ~SpecBdevs, NEW n \in workload' \ hidden', NEW m \in workload' \ hidden', n # m,
                    Share(n, m)'
             PROVE  FALSE
  BY Zenon DEF NoSharedDrive
<1>k. hidden \subseteq hidden' /\ workload \in SUBSET Nodes
  BY OthersKeep, Zenon DEF TypeInv, TypeOK
<1> USE DEF memory, history
<1>1. PICK i \in config'[n].bdevs, j \in config'[m].bdevs : Dsn[n][i] = Dsn[m][j]
  BY Zenon DEF Share
<1>a. ASSUME n \in workload, m \in workload, config'[n] = config[n], config'[m] = config[m] PROVE FALSE
  <2>1. i \in config[n].bdevs /\ j \in config[m].bdevs
    BY <1>1, <1>a, Zenon
  <2>2. Share(n, m)
    BY <1>1, <2>1, Zenon DEF Share
  <2> QED BY <1>a, <1>k, <2>2, Zenon DEF NoSharedDrive
<1>2. CASE Render
  <2>1. PICK r \in Nodes :
             /\ UNCHANGED <<selected, known, view, facts, pc, hidden>> /\ pc # "idle"
             /\ workload' \subseteq workload \cup {r} /\ \A k \in Nodes \ {r} : config'[k] = config[k]
             /\ ~Renderable(r) => workload' \subseteq workload /\ config' = config
             /\ Renderable(r) => config'[r] = [ms |-> wroles, bdevs |-> Bdevs(r)]
    BY <1>2, RenderOne, Zenon
  <2>2. CASE ~Renderable(r) \/ (n # r /\ m # r)
    BY <1>a, <1>k, <2>1, <2>2, Zenon
  <2>3. ASSUME Renderable(r), NEW o \in workload \ hidden, o # r,
               NEW x \in config'[r].bdevs, NEW y \in config'[o].bdevs, Dsn[r][x] = Dsn[o][y]
        PROVE  FALSE
    <3>1. config'[r].bdevs = facts[r]
      BY <2>1, <2>3 DEF Bdevs
    <3>2. x \in facts[r] /\ config'[o] = config[o]
      BY <1>k, <2>1, <2>3, <3>1, Zenon
    <3>3. InSight(o) /\ y \in config[o].bdevs
      BY <2>3, <3>2, Zenon DEF Seen
    <3>4. o \in view /\ y \in facts[o]
      BY <2>1, <3>3, Zenon DEF InSight
    <3>5. r \in view /\ r \notin DriveConflicts(view, facts)
      BY <2>3, Zenon DEF Renderable, Healthy
    <3> QED BY <2>3, <3>2, <3>4, <3>5, SharersConflict, Zenon
  <2>4. CASE n = r /\ Renderable(r)
    <3>1. m \in workload \ hidden
      BY <2>1, <2>4, Zenon
    <3> QED BY <1>1, <2>3, <2>4, <3>1, Zenon
  <2>5. CASE m = r /\ Renderable(r)
    <3>1. n \in workload \ hidden /\ Dsn[m][j] = Dsn[n][i]
      BY <1>1, <2>1, <2>5, Zenon
    <3> QED BY <1>1, <2>3, <2>5, <3>1, Zenon
  <2> QED BY <2>2, <2>4, <2>5, Zenon
<1>3. CASE ~Render
  <2>1. UNCHANGED <<workload, config>>
    BY <1>3, Zenon DEF Next, Operator, HostPrep, BeginPass, TooFewNodes, TooFewHealthy, Choose, UpdateStatus,
       PassEnds, Join, Leave, FactsArrive, FactsLost, PodStarts, EditSpec, Changes, vars
  <2> QED BY <1>a, <1>k, <2>1, Zenon
<1> QED BY <1>2, <1>3, Zenon

\* bdev-dsn (api/v1alpha1/constants.go:38-39): for any number of nodes and any sharing
\* of drives, two nodes do not both get a server on the same drive, while servers wait
\* for the annotations of their node and neither node left or had a drive taken out
\* of its annotations.
THEOREM DrivesNotShared == Spec => []NoSharedDrive
<1>1. Init => DriveInv
  BY InitType, Zenon DEF Init, DriveInv, Seen, NoSharedDrive
<1>2. DriveInv => NoSharedDrive
  BY Zenon DEF DriveInv
<1>3. DriveInv /\ [Next]_vars => DriveInv'
  BY TypeStep, SeenStep, ApartStep, Zenon DEF DriveInv
<1> QED BY <1>1, <1>2, <1>3, PTL DEF Spec

-----------------------------------------------------------------------------
(***************************************************************************)
(* The recorded role.  While no node leaves and spec.engines is not        *)
(* emptied, recorded nodes are selected and in view, so that a pass which  *)
(* finds too few nodes cannot follow one that recorded a role.  A node     *)
(* free of conflicts since it was recorded was so when the pass read the   *)
(* annotations, whatever became of them since.                             *)
(***************************************************************************)
Held == leaves = 0 /\ ~emptied

RolesInView ==
    /\ spec.engines /\ (pc # "idle" => sys.engines)
    /\ roles \subseteq selected
    /\ roles # {} => Cardinality(selected) >= MsReplicas
    /\ pc # "idle" => /\ roles \subseteq view
                      /\ roles # {} => Cardinality(view) >= MsReplicas

RoleHandedOut ==
    pc = "render" => /\ Cardinality(view) >= MsReplicas
                     /\ wroles \subseteq Healthy(view, facts)
                     /\ roles \cap Healthy(view, facts) \subseteq wroles

SteadyHealthy ==
    /\ steady \subseteq Healthy(selected, known)
    /\ pc # "idle" => steady \cap view \subseteq Healthy(view, facts)

RoleInv ==
    /\ TypeInv
    /\ leaves = 0 => view \subseteq selected
    /\ RoleHandedOut /\ SteadyHealthy
    /\ Held => RolesInView /\ steady \subseteq roles

\* A node that leaves is counted.
LEMMA NoLeave ==
    ASSUME TypeOK, [Next]_vars, leaves' = 0
    PROVE  leaves = 0 /\ selected \subseteq selected'
<1> USE DEF bounds, Changes
<1>t. leaves \in Nat
  BY DEF TypeOK
<1>1. ASSUME NEW n \in Nodes, Leave(n) PROVE FALSE
  BY <1>1, <1>t DEF Leave
<1>2. ASSUME NEW n \in Nodes, Join(n) \/ FactsArrive(n) \/ FactsLost(n) \/ PodStarts(n)
      PROVE  leaves = 0 /\ selected \subseteq selected'
  BY <1>2, Zenon DEF Join, FactsArrive, FactsLost, PodStarts
<1>3. CASE Operator
  BY <1>3, Zenon DEF Operator, BeginPass, TooFewNodes, TooFewHealthy, Choose, Render, UpdateStatus
<1>4. CASE PassEnds \/ EditSpec \/ UNCHANGED vars
  BY <1>4, Zenon DEF PassEnds, EditSpec, vars
<1> QED BY <1>1, <1>2, <1>3, <1>4, Zenon DEF Next, HostPrep

\* Every step keeps the nodes in charge free of conflicts, now and when the pass began.
LEMMA SteadyStep == ASSUME SteadyHealthy, [Next]_vars PROVE SteadyHealthy'
<1> USE DEF memory, history
<1>1. CASE BeginPass
  <2>1. Healthy(selected, known)' = Healthy(selected, known) /\ Healthy(view, facts)' = Healthy(selected, known)
    BY <1>1, Zenon DEF BeginPass
  <2> QED BY <1>1, <2>1, Zenon DEF BeginPass, SteadyHealthy
<1>2. ASSUME NEW role, Record(role), UNCHANGED <<selected, known>>, pc' = "idle" PROVE SteadyHealthy'
  <2>1. Healthy(selected, known)' = Healthy(selected, known)
    BY <1>2, Zenon
  <2> QED BY <1>2, <2>1, Zenon DEF Record, SteadyHealthy
<1>3. CASE TooFewNodes \/ TooFewHealthy \/ UpdateStatus
  BY <1>2, <1>3, Zenon DEF TooFewNodes, TooFewHealthy, UpdateStatus, Return
<1>4. ASSUME UNCHANGED <<view, facts>>, pc' # "idle" => pc # "idle", steady' \subseteq steady,
             steady' \subseteq Healthy(selected, known)'
      PROVE  SteadyHealthy'
  <2>1. Healthy(view, facts)' = Healthy(view, facts)
    BY <1>4, Zenon
  <2> QED BY <1>4, <2>1, Zenon DEF SteadyHealthy
<1>5. ASSUME Changes PROVE SteadyHealthy'
  <2>1. steady' = steady \cap Healthy(selected, known)' /\ UNCHANGED <<view, facts, pc>>
    BY <1>5, Zenon DEF Changes, Healthy, DriveConflicts, Serials
  <2> QED BY <1>4, <2>1, Zenon
<1>6. ASSUME NEW n \in Nodes, Join(n) \/ Leave(n) \/ FactsArrive(n) \/ FactsLost(n) PROVE Changes
  BY <1>6, Zenon DEF Join, Leave, FactsArrive, FactsLost
<1>7. ASSUME UNCHANGED <<selected, known, steady>> PROVE steady' \subseteq Healthy(selected, known)'
  BY <1>7, Zenon DEF SteadyHealthy
<1>8. CASE PassEnds
  BY <1>7, <1>8, Zenon DEF PassEnds, Return, SteadyHealthy
<1>9. CASE Choose \/ Render \/ EditSpec \/ UNCHANGED vars
  <2>1. UNCHANGED <<selected, known, steady, view, facts>> /\ (pc' # "idle" => pc # "idle")
    BY <1>9, Zenon DEF Choose, Render, EditSpec, vars
  <2> QED BY <1>4, <1>7, <2>1, Zenon
<1>10. ASSUME NEW n \in Nodes, PodStarts(n) PROVE SteadyHealthy'
  <2>1. UNCHANGED <<selected, known, steady, view, facts, pc>>
    BY <1>10, Zenon DEF PodStarts
  <2> QED BY <1>4, <1>7, <2>1, Zenon
<1> QED BY <1>1, <1>3, <1>5, <1>6, <1>8, <1>9, <1>10, Zenon DEF Next, Operator, HostPrep

\* Where spec.engines was not empty before, it was not.
LEMMA HeldBefore ==
    ASSUME TypeOK, [Next]_vars, Held'
    PROVE  Held /\ selected \subseteq selected'
<1>1. emptied => emptied'
  <2>1. CASE EditSpec
    BY <2>1, Zenon DEF EditSpec
  <2>2. CASE ~EditSpec
    BY <2>2, Zenon DEF Next, Operator, HostPrep, BeginPass, TooFewNodes, TooFewHealthy, Choose, Render,
       UpdateStatus, PassEnds, Join, Leave, FactsArrive, FactsLost, PodStarts, Changes, vars, history
  <2> QED BY <2>1, <2>2, Zenon
<1> QED BY <1>1, NoLeave, Zenon DEF Held

\* More nodes are not fewer.
LEMMA MoreNodes ==
    ASSUME NEW S \in SUBSET Nodes, NEW T \in SUBSET Nodes, S \subseteq T
    PROVE  \A k \in Nat : Cardinality(S) >= k => Cardinality(T) >= k
<1>1. Cardinality(S) \in Nat /\ Cardinality(T) \in Nat /\ IsFiniteSet(T)
  BY NodeSets, Zenon
<1>2. Cardinality(S) <= Cardinality(T)
  BY <1>1, FS_Subset, Zenon
<1> QED BY <1>1, <1>2

\* Recording the role of a pass.
LEMMA RoleRecorded ==
    ASSUME TypeInv, view \subseteq selected, RolesInView, SteadyHealthy, steady \subseteq roles, NEW role \in SUBSET Nodes,
           pc # "idle", role \subseteq Healthy(view, facts), Cardinality(view) >= MsReplicas,
           roles \cap Healthy(view, facts) \subseteq role,
           Record(role), Return, UNCHANGED <<spec, selected, known>>
    PROVE  RolesInView' /\ steady' \subseteq roles'
<1>1. view \in SUBSET Nodes /\ selected \in SUBSET Nodes /\ view \subseteq selected
  BY Zenon DEF TypeInv, TypeOK
<1>2. role \subseteq selected
  BY <1>1, Zenon DEF Healthy
<1>3. Cardinality(selected) >= MsReplicas
  BY <1>1, MoreNodes
<1>4. steady' \subseteq roles'
  <2>1. steady \subseteq role
    BY Zenon DEF RolesInView, SteadyHealthy
  <2> QED BY <2>1, Zenon DEF Record
<1> QED BY <1>2, <1>3, <1>4, Zenon DEF Record, Return, RolesInView

\* Every step keeps the recorded role.
LEMMA RoleStep == RoleInv /\ [Next]_vars => RoleInv'
<1> SUFFICES ASSUME RoleInv, [Next]_vars PROVE RoleInv'
  BY Zenon
<1>t. TypeInv /\ TypeInv' /\ TypeOK
  BY TypeStep, Zenon DEF RoleInv, TypeInv
<1>s. /\ view \in SUBSET Nodes /\ selected \in SUBSET Nodes /\ selected' \in SUBSET Nodes
      /\ roles \in SUBSET Nodes /\ wroles \in SUBSET Nodes
  BY <1>t, Zenon DEF TypeInv, TypeOK
<1> USE DEF memory, history
<1>c. leaves' = 0 => view' \subseteq selected'
  <2> SUFFICES ASSUME leaves' = 0 PROVE view' \subseteq selected'
    BY Zenon
  <2>1. view \subseteq selected /\ selected \subseteq selected'
    BY <1>t, NoLeave, Zenon DEF RoleInv
  <2>2. view' = selected \/ view' = {} \/ view' = view
    BY Zenon DEF Next, Operator, HostPrep, BeginPass, TooFewNodes, TooFewHealthy, Choose, Render,
       UpdateStatus, PassEnds, Return, Join, Leave, FactsArrive, FactsLost, PodStarts, EditSpec, Changes, vars
  <2> QED BY <2>1, <2>2, Zenon
<1>d. SteadyHealthy'
  BY SteadyStep, Zenon DEF RoleInv
<1>h. RoleHandedOut'
  <2>1. CASE Choose
    BY <2>1, <1>t, RoleType, Zenon DEF Choose, RoleHandedOut, Healthy
  <2>2. CASE ~Choose
    <3>1. pc' = "render" => UNCHANGED <<pc, view, facts, wroles, roles>>
      BY <2>2, Zenon DEF Next, Operator, HostPrep, BeginPass, TooFewNodes, TooFewHealthy, Render,
         UpdateStatus, PassEnds, Return, Join, Leave, FactsArrive, FactsLost, PodStarts, EditSpec, Changes, vars
    <3> QED BY <3>1, Zenon DEF RoleInv, RoleHandedOut, Healthy
  <2> QED BY <2>1, <2>2, Zenon
<1> SUFFICES ASSUME Held' PROVE RolesInView' /\ steady' \subseteq roles'
  BY <1>t, <1>c, <1>d, <1>h, Zenon DEF RoleInv
<1>u. /\ view \subseteq selected /\ RolesInView /\ steady \subseteq roles /\ RoleHandedOut /\ Held
      /\ SteadyHealthy /\ selected \subseteq selected'
  BY <1>t, HeldBefore, Zenon DEF RoleInv, Held
<1>1. CASE BeginPass
  BY <1>1, <1>u, Zenon DEF BeginPass, RolesInView
<1>2. CASE TooFewNodes
  <2>1. roles = {}
    <3>1. Cardinality(view) \in Nat /\ MsReplicas \in Nat
      BY <1>s, NodeSets
    <3> QED BY <1>2, <1>u, <3>1 DEF TooFewNodes, RolesInView
  <2> QED BY <1>2, <1>u, <2>1, Zenon DEF TooFewNodes, Record, Return, RolesInView
<1>3. CASE TooFewHealthy
  BY <1>3, <1>t, <1>u, RoleType, RoleRecorded, Zenon DEF TooFewHealthy
<1>4. CASE Choose
  BY <1>4, <1>u, Zenon DEF Choose, RolesInView
<1>5. CASE Render
  BY <1>5, <1>u, Zenon DEF Render, RolesInView
<1>6. CASE UpdateStatus
  BY <1>6, <1>t, <1>s, <1>u, RoleRecorded, Zenon DEF UpdateStatus, RoleHandedOut
<1>7. CASE PassEnds
  BY <1>7, <1>u, Zenon DEF PassEnds, Return, RolesInView
<1>8. ASSUME UNCHANGED <<roles, pc, sys, view>>, steady' \subseteq steady,
             spec' = spec \/ spec'.engines
      PROVE  RolesInView' /\ steady' \subseteq roles'
  <2>1. Cardinality(selected) >= MsReplicas => Cardinality(selected') >= MsReplicas
    BY <1>s, <1>u, MoreNodes
  <2> QED BY <1>8, <1>u, <2>1, Zenon DEF RolesInView
<1>9. ASSUME NEW n \in Nodes, Join(n) \/ Leave(n) \/ FactsArrive(n) \/ FactsLost(n)
      PROVE  RolesInView' /\ steady' \subseteq roles'
  BY <1>8, <1>9, Zenon DEF Join, Leave, FactsArrive, FactsLost, Changes
<1>10. CASE EditSpec
  BY <1>8, <1>10, Zenon DEF EditSpec, Held
<1>11. ASSUME NEW n \in Nodes, PodStarts(n) PROVE RolesInView' /\ steady' \subseteq roles'
  BY <1>8, <1>11, Zenon DEF PodStarts
<1>12. CASE UNCHANGED vars
  BY <1>8, <1>12, Zenon DEF vars
<1> QED BY <1>1, <1>2, <1>3, <1>4, <1>5, <1>6, <1>7, <1>9, <1>10, <1>11, <1>12, Zenon
        DEF Next, Operator, HostPrep

\* The invariant of the role holds at the start.
LEMMA InitRole == Init => RoleInv
  BY InitType DEF Init, RoleInv, SteadyHealthy, RoleHandedOut, RolesInView

\* Step 3 of Reconcile (daossystem_controller.go:231): for any number of nodes, joins,
\* edits, faults and rewritten annotations, a recorded replica that is free of conflicts keeps the role, while
\* no node leaves and spec.engines is not emptied.
THEOREM RolesAreKept == Spec => []RoleKept
<1>1. RoleInv => RoleKept
  BY Zenon DEF RoleInv, RoleKept, Held
<1> QED BY <1>1, InitRole, RoleStep, PTL DEF Spec

-----------------------------------------------------------------------------
(***************************************************************************)
(* One system.  The role is the same set of nodes from its first use in a  *)
(* configuration on: its nodes stay selected, in view and free of          *)
(* conflicts, and since they are msReplicas many no other node is added.   *)
(***************************************************************************)
NothingWritten == (\A n \in Nodes : config[n].ms = {}) /\ founders = {}

FirstHolds ==
    /\ founders \subseteq first /\ \A n \in Nodes : config[n].ms \subseteq first
    /\ Cardinality(first) >= MsReplicas
    /\ first \subseteq selected /\ (pc # "idle" => first \subseteq view)
    /\ pc = "render" => wroles = first
    /\ pc # "render" => roles = first
    /\ pc # "idle" => first \subseteq Healthy(view, facts)

ClashNoted == first # None /\ ~clashed => first \cap DriveConflicts(selected, known) = {}

OneInv ==
    /\ RoleInv /\ ClashNoted
    /\ pc = "render" => Cardinality(wroles) >= MsReplicas
    /\ first = None => NothingWritten
    /\ first # None /\ Undisturbed => FirstHolds

\* A full role that is healthy as a whole is handed out again, and to no other node.
LEMMA SameRole ==
    ASSUME TypeOK, first \in SUBSET Nodes, roles = first, first \subseteq Healthy(view, facts),
           Cardinality(first) >= MsReplicas
    PROVE  Role = first
<1> DEFINE healthy == Healthy(view, facts)
           k == MsReplicas - Cardinality(first)
<1>1. Cardinality(first) \in Nat
  BY NodeSets, Zenon
<1>2. k \in Int /\ k <= 0
  BY <1>1
<1>3. healthy \ first \in SUBSET Nodes
  BY HealthyType, Zenon DEF TypeOK
<1>4. ByName(healthy \ first, k) = {}
  BY <1>2, <1>3, FirstByName, Zenon
<1>5. roles \cap healthy = first
  BY Zenon
<1> QED BY <1>4, <1>5, Zenon DEF Role

\* A system that is undisturbed was so before.
LEMMA UndisturbedBefore ==
    ASSUME TypeOK, [Next]_vars, Undisturbed', first' # None, first # None
    PROVE  Undisturbed /\ first' = first /\ Held'
<1>1. Held' /\ faults' = 0
  BY Zenon DEF Undisturbed, Held
<1>2. Held
  BY <1>1, HeldBefore, Zenon
<1>3. first' = first
  BY Zenon DEF Next, Operator, HostPrep, BeginPass, TooFewNodes, TooFewHealthy, Choose, Render,
     UpdateStatus, PassEnds, Join, Leave, FactsArrive, FactsLost, PodStarts, EditSpec, Changes, vars, history
<1>4. faults = 0
  <2>1. faults \in Nat
    BY DEF TypeOK
  <2>2. CASE PassEnds
    BY <1>1, <2>1, <2>2 DEF PassEnds
  <2>3. CASE ~PassEnds
    BY <1>1, <2>3, Zenon DEF Next, Operator, HostPrep, BeginPass, TooFewNodes, TooFewHealthy, Choose,
       Render, UpdateStatus, Join, Leave, FactsArrive, FactsLost, PodStarts, EditSpec, Changes, vars, history, bounds
  <2> QED BY <2>2, <2>3, Zenon
<1>5. clashed => clashed'
  <2>1. NoteClash \/ clashed' = clashed
    BY Zenon DEF Next, Operator, HostPrep, BeginPass, TooFewNodes, TooFewHealthy, Choose, Render,
       UpdateStatus, PassEnds, Join, Leave, FactsArrive, FactsLost, PodStarts, EditSpec, Changes, vars, history
  <2>2. NoteClash => (clashed => clashed')
    BY Zenon DEF NoteClash
  <2> QED BY <2>1, <2>2, Zenon
<1> QED BY <1>1, <1>2, <1>3, <1>4, <1>5, Zenon DEF Undisturbed, Held

\* A conflict of the first role does not go unnoticed.
LEMMA ClashStep == ASSUME ClashNoted, [Next]_vars PROVE ClashNoted'
<1> DEFINE now == DriveConflicts(selected, known)
<1>1. ASSUME NoteClash PROVE ClashNoted'
  <2>1. DriveConflicts(selected', known') = now'
    BY Zenon DEF DriveConflicts, Serials
  <2> QED BY <1>1, <2>1, Zenon DEF NoteClash, ClashNoted
<1>2. ASSUME UNCHANGED <<first, clashed, selected, known>> PROVE ClashNoted'
  <2>1. now' = now
    BY <1>2, Zenon
  <2> QED BY <1>2, <2>1, Zenon DEF ClashNoted
<1>3. ASSUME NEW n \in Nodes, Join(n) \/ Leave(n) \/ FactsArrive(n) \/ FactsLost(n) PROVE NoteClash
  BY <1>3, Zenon DEF Join, Leave, FactsArrive, FactsLost, Changes
<1>4. CASE Render
  BY <1>1, <1>4, Zenon DEF Render
<1>5. CASE PassEnds \/ EditSpec \/ UNCHANGED vars
  BY <1>2, <1>5, Zenon DEF PassEnds, EditSpec, vars, history
<1>6. CASE BeginPass \/ TooFewNodes \/ TooFewHealthy \/ Choose \/ UpdateStatus
  BY <1>2, <1>6, Zenon DEF BeginPass, TooFewNodes, TooFewHealthy, Choose, UpdateStatus, history
<1>7. ASSUME NEW n \in Nodes, PodStarts(n) PROVE ClashNoted'
  BY <1>2, <1>7, Zenon DEF PodStarts
<1> QED BY <1>1, <1>3, <1>4, <1>5, <1>6, <1>7, Zenon DEF Next, Operator, HostPrep

\* Every step after the first configuration was written.
LEMMA FirstKept ==
    ASSUME OneInv, [Next]_vars, first # None, first' = first, Undisturbed, Undisturbed'
    PROVE  FirstHolds'
<1>t. TypeOK /\ TypeOK' /\ RoleInv /\ FirstHolds /\ Held /\ ClashNoted /\ RolesInView
  BY TypeStep, Zenon DEF OneInv, RoleInv, TypeInv, Undisturbed, Held
<1>s. /\ first \in SUBSET Nodes /\ view \in SUBSET Nodes /\ Cardinality(first) \in Nat
      /\ Cardinality(view) \in Nat /\ Cardinality(first) >= MsReplicas
      /\ config \in [Nodes -> Configs]
  BY <1>t, NodeSets, Zenon DEF TypeOK, FirstHolds
<1>n. selected \subseteq selected' /\ faults = 0 /\ faults' = 0
  BY <1>t, NoLeave, Zenon DEF Undisturbed
<1> USE DEF memory, history
<1>r. ASSUME pc = "nodes" PROVE Role = first /\ Cardinality(view) >= MsReplicas /\ sys.engines
  <2>1. first \subseteq view /\ roles = first
    BY <1>r, <1>t, Zenon DEF FirstHolds
  <2>2. first \subseteq Healthy(view, facts)
    BY <1>r, <1>t, Zenon DEF FirstHolds
  <2>3. Role = first
    BY <1>t, <1>s, <2>1, <2>2, SameRole, Zenon
  <2>4. Cardinality(view) >= MsReplicas
    BY <1>s, <2>1, MoreNodes
  <2> QED BY <1>r, <1>t, <2>3, <2>4, Zenon DEF RolesInView
<1>h. UNCHANGED <<view, facts>> => Healthy(view, facts)' = Healthy(view, facts)
  BY Zenon
<1>1. CASE BeginPass
  <2>1. Healthy(view, facts)' = Healthy(selected, known)
    BY <1>1, Zenon DEF BeginPass
  <2>2. first \subseteq Healthy(selected, known)
    BY <1>t, Zenon DEF ClashNoted, FirstHolds, Undisturbed, Healthy
  <2> QED BY <1>1, <1>t, <2>1, <2>2, Zenon DEF BeginPass, FirstHolds
<1>2. ~TooFewNodes
  BY <1>r, <1>s DEF TooFewNodes
<1>3. ~TooFewHealthy
  BY <1>r, <1>s DEF TooFewHealthy
<1>4. CASE Choose
  BY <1>4, <1>t, <1>r, <1>h, Zenon DEF Choose, FirstHolds
<1>5. CASE Render
  <2>1. wroles = first
    BY <1>5, <1>t, Zenon DEF Render, FirstHolds
  <2>2. PICK n \in Nodes :
             /\ UNCHANGED <<selected, known, view, facts, pc, hidden>> /\ pc # "idle"
             /\ workload' \subseteq workload \cup {n} /\ \A m \in Nodes \ {n} : config'[m] = config[m]
             /\ ~Renderable(n) => workload' \subseteq workload /\ config' = config
             /\ Renderable(n) => config'[n] = [ms |-> wroles, bdevs |-> Bdevs(n)]
    BY <1>5, <1>t, RenderOne, Zenon DEF RoleInv
  <2>3. Renderable(n) => config'[n].ms = wroles
    BY <2>2
  <2>4. \A m \in Nodes : config'[m].ms \subseteq first
    BY <1>t, <2>1, <2>2, <2>3, Zenon DEF FirstHolds
  <2> QED BY <1>5, <1>t, <1>h, <2>2, <2>4, Zenon DEF Render, FirstHolds
<1>6. CASE UpdateStatus
  BY <1>6, <1>t, Zenon DEF UpdateStatus, Record, Return, FirstHolds
<1>7. ~PassEnds
  BY <1>n DEF PassEnds
<1>8. ASSUME UNCHANGED <<config, roles, pc, wroles, view, facts>>, founders' \subseteq first
      PROVE  FirstHolds'
  BY <1>8, <1>t, <1>n, <1>h, Zenon DEF FirstHolds
<1>9. ASSUME NEW n \in Nodes, Join(n) \/ Leave(n) \/ FactsArrive(n) \/ FactsLost(n) PROVE FirstHolds'
  BY <1>8, <1>9, <1>t, Zenon DEF Join, Leave, FactsArrive, FactsLost, Changes, FirstHolds
<1>10. CASE EditSpec
  BY <1>8, <1>10, <1>t, Zenon DEF EditSpec, FirstHolds
<1>11. ASSUME NEW n \in Nodes, PodStarts(n) PROVE FirstHolds'
  BY <1>8, <1>11, <1>t, Zenon DEF PodStarts, FirstHolds
<1>12. CASE UNCHANGED vars
  BY <1>8, <1>12, <1>t, Zenon DEF vars, FirstHolds
<1> QED BY <1>1, <1>2, <1>3, <1>4, <1>5, <1>6, <1>7, <1>9, <1>10, <1>11, <1>12, Zenon
        DEF Next, Operator, HostPrep

\* Every step keeps the first role the only one.
LEMMA OneStep == OneInv /\ [Next]_vars => OneInv'
<1> SUFFICES ASSUME OneInv, [Next]_vars PROVE OneInv'
  BY Zenon
<1>t. RoleInv /\ RoleInv' /\ TypeOK /\ TypeOK' /\ ClashNoted'
  BY RoleStep, ClashStep, Zenon DEF OneInv, RoleInv, TypeInv
<1> USE DEF memory, history
<1>1. pc' = "render" => Cardinality(wroles') >= MsReplicas
  <2>1. CASE Choose
    BY <2>1, Zenon DEF Choose
  <2>2. CASE ~Choose
    <3>1. pc' = "render" => UNCHANGED <<pc, wroles>>
      BY <2>2, Zenon DEF Next, Operator, HostPrep, BeginPass, TooFewNodes, TooFewHealthy, Render,
         UpdateStatus, PassEnds, Return, Join, Leave, FactsArrive, FactsLost, PodStarts, EditSpec, Changes, vars
    <3> QED BY <3>1, Zenon DEF OneInv
  <2> QED BY <2>1, <2>2, Zenon
<1>2. first # None => first' = first
  BY Zenon DEF Next, Operator, HostPrep, BeginPass, TooFewNodes, TooFewHealthy, Choose, Render,
     UpdateStatus, PassEnds, Join, Leave, FactsArrive, FactsLost, PodStarts, EditSpec, Changes, vars
<1>3. CASE first # None
  <2>1. Undisturbed' => FirstHolds'
    BY <1>2, <1>3, <1>t, UndisturbedBefore, FirstKept, Zenon
  <2> QED BY <1>1, <1>2, <1>3, <1>t, <2>1, Zenon DEF OneInv
<1>4. CASE first = None
  <2>n. NothingWritten /\ config \in [Nodes -> Configs]
    BY <1>4, <1>t, Zenon DEF OneInv, TypeOK
  <2>1. CASE Render
    <3> DEFINE n == CHOOSE m \in todo : \A k \in todo : m <= k
    <3>1. CASE ~Renderable(n)
      <4>1. UNCHANGED <<config, founders, first>>
        BY <2>1, <3>1, Zenon DEF Render
      <4> QED BY <1>1, <1>4, <1>t, <2>n, <4>1, Zenon DEF OneInv, NothingWritten
    <3>2. CASE Renderable(n)
      <4>1. /\ first' = wroles /\ founders' = {} /\ UNCHANGED <<pc, view, facts, selected, wroles, leaves>>
            /\ pc = "render" /\ config' = [config EXCEPT ![n] = [ms |-> wroles, bdevs |-> Bdevs(n)]]
        BY <1>4, <2>1, <2>n, <3>2, Zenon DEF Render, NothingWritten, bounds
      <4>2. wroles \in SUBSET Nodes /\ wroles # None
        BY <1>t, NoneIsNoRole, Zenon DEF TypeOK
      <4>3. \A m \in Nodes : config'[m].ms \subseteq wroles
        <5> DEFINE new == [ms |-> wroles, bdevs |-> Bdevs(n)]
        <5>1. new.ms = wroles
          BY Zenon
        <5> HIDE DEF new, n
        <5>2. \A m \in Nodes : config'[m] = config[m] \/ config'[m] = new
          BY <2>n, <4>1, Zenon DEF new
        <5> QED BY <2>n, <5>1, <5>2, Zenon DEF NothingWritten
      <4>4. /\ wroles \subseteq view /\ Cardinality(wroles) >= MsReplicas
            /\ wroles \subseteq Healthy(view, facts)
        BY <1>t, <4>1, Zenon DEF OneInv, RoleInv, RoleHandedOut, Healthy
      <4>h. Healthy(view, facts)' = Healthy(view, facts)
        BY <4>1, Zenon
      <4>5. Undisturbed' => wroles \subseteq selected
        BY <1>t, <4>1, <4>4, Zenon DEF Undisturbed, RoleInv
      <4>6. Undisturbed' => FirstHolds'
        BY <4>1, <4>3, <4>4, <4>5, <4>h, Zenon DEF FirstHolds
      <4> QED BY <1>1, <1>t, <4>1, <4>2, <4>6, Zenon DEF OneInv
    <3> QED BY <3>1, <3>2, Zenon
  <2>2. CASE ~Render
    <3>1. first' = first /\ config' = config
      BY <2>2, Zenon DEF Next, Operator, HostPrep, BeginPass, TooFewNodes, TooFewHealthy, Choose,
         UpdateStatus, PassEnds, Join, Leave, FactsArrive, FactsLost, PodStarts, EditSpec, Changes, vars
    <3>2. founders' = founders
      <4>1. ASSUME NEW n \in Nodes, PodStarts(n) PROVE founders' = founders
        BY <2>n, <4>1, Zenon DEF PodStarts, NothingWritten
      <4> QED BY <2>2, <4>1, Zenon DEF Next, Operator, HostPrep, BeginPass, TooFewNodes, TooFewHealthy,
         Choose, UpdateStatus, PassEnds, Join, Leave, FactsArrive, FactsLost, EditSpec, Changes, vars
    <3> QED BY <1>1, <1>4, <1>t, <2>n, <3>1, <3>2, Zenon DEF OneInv, NothingWritten
  <2> QED BY <2>1, <2>2, Zenon
<1> QED BY <1>3, <1>4, Zenon

\* Step 3 of Reconcile (daossystem_controller.go:232-236): for any number of nodes and
\* replicas, any sharing of drives and any joins and edits that leave spec.engines
\* non-empty, no node outside the first role founds a management service, as long as
\* no pass was cut short, no node left, and the first role never had a conflict.
THEOREM OneSystemIsFounded == Spec => []OneSystem
<1>1. Init => OneInv
  <2>1. Init => NothingWritten
    BY DEF Init, NothingWritten
  <2> QED BY InitRole, <2>1, Zenon DEF Init, OneInv, ClashNoted
<1>2. OneInv => OneSystem
  BY Zenon DEF OneInv, OneSystem, FirstHolds
<1> QED BY <1>1, <1>2, OneStep, PTL DEF Spec
=============================================================================
