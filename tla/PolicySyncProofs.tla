-------------------------- MODULE PolicySyncProofs --------------------------
(***************************************************************************)
(* Theorems about PolicySync, for every set of names, every matching       *)
(* relation and every set of policies.  All of them rest on one inductive  *)
(* invariant, IInv.                                                        *)
(***************************************************************************)
EXTENDS PolicySync, TLAPS

(* Where the pieces of the policy in force come from. *)
Provenance ==
  /\ blacklist = Local \/ \E p \in fetched : blacklist = Local \cup p.blocked
  /\ policyActive => \E p \in fetched : authorized = NormSet(p.authorized)
  /\ cats # {} => \E p \in fetched : cats = p.cats
  /\ installed \subseteq fetched
  /\ installed # {} => /\ policyActive
                       /\ \E p \in fetched : blacklist = Local \cup p.blocked
  /\ (\E p \in installed : p.cats # {}) => cats # {}
  /\ ppc \in {"black", "auth", "cats"} => gotPolicy \in fetched
  /\ ppc \in {"auth", "cats"} => \E p \in fetched : blacklist = Local \cup p.blocked
  /\ ppc = "cats" => policyActive

(* What the category match of the event at hand rests on.  fetched may     *)
(* have grown since it was taken.                                          *)
EventGrounds ==
  cpc # "idle" =>
    /\ ev.matched => \E p \in fetched : Matches(ev.domain, p.cats)
    /\ ev.installed \subseteq installed
    /\ ((\E p \in ev.installed : p.cats # {}) /\ Shadow(ev.domain)) => ev.matched

(* Who ordered the mode in force and the one about to be set. *)
ModeOrders ==
  /\ cmode \in offered
  /\ gotMode = "enforcement" => "enforcement" \in offered

IInv ==
  /\ TypeOK /\ Provenance /\ EventGrounds /\ ModeOrders
  /\ LocalFloor /\ BlocksAreGrounded /\ ShadowStaysBlocked /\ EnforcementIsOrdered

-----------------------------------------------------------------------------
(* A larger set hits every domain the smaller one hits. *)
LEMMA HitMonotone ==
  ASSUME NEW d, NEW S, NEW T, S \subseteq T, Hit(d, S)
  PROVE  Hit(d, T)
BY DEF Hit

(* More policies received give more grounds for a block ... *)
LEMMA GroundsMonotone ==
  ASSUME NEW d, fetched \subseteq fetched', Grounds(d)
  PROVE  Grounds(d)'
BY DEF Grounds

(* ... and put fewer domains in the shadow of all of them. *)
LEMMA ShadowAntitone ==
  ASSUME NEW d, fetched \subseteq fetched'
  PROVE  Shadow(d)' => Shadow(d)
BY DEF Shadow

LEMMA ListedAntitone ==
  ASSUME NEW d, fetched \subseteq fetched'
  PROVE  Listed(d)' => Listed(d)
BY DEF Listed

(* fetchPolicy returns two sets of names and a set of rules. *)
LEMMA ParsedType ==
  ASSUME NEW p \in Policies
  PROVE  Parsed(p) \in Triple
BY PolicyAssumption DEF PolicyAssumption, Parsed, Triple

(* The domains of the traffic are in normal form: IsBlocked looks them up  *)
(* as they are.                                                            *)
LEMMA VerdictOnTraffic ==
  ASSUME NEW d \in Traffic, NEW matched
  PROVE  IsBlocked(d, matched) =
           (Hit(d, blacklist) \/ (policyActive /\ ~Hit(d, authorized) /\ matched))
BY PolicyAssumption DEF PolicyAssumption, IsBlocked

-----------------------------------------------------------------------------
LEMMA InitIInv == Init => IInv
<1> SUFFICES ASSUME Init PROVE IInv
  OBVIOUS
<1>1. TypeOK
  <2>1. /\ cmode \in Modes /\ cpolicy \in Policies /\ changes \in 0..MaxPublish
        /\ offered \subseteq Modes /\ mode \in {"monitoring", "enforcement"}
        /\ blacklist \subseteq Names
    BY PolicyAssumption DEF PolicyAssumption, Init
  <2>2. gotPolicy \in Triple
    BY DEF Init, NoPolicy, Triple
  <2>3. ev \in [domain : Traffic \cup {"none"}, matched : BOOLEAN,
                blocked : BOOLEAN, installed : SUBSET Triple]
    BY DEF Init, NoEvent
  <2> QED
    BY <2>1, <2>2, <2>3 DEF Init, TypeOK
<1>2. Provenance /\ EventGrounds /\ ModeOrders
  BY DEF Init, Provenance, EventGrounds, ModeOrders, NoEvent
<1>3. LocalFloor /\ BlocksAreGrounded /\ ShadowStaysBlocked /\ EnforcementIsOrdered
  BY DEF Init, LocalFloor, BlocksAreGrounded, ShadowStaysBlocked, EnforcementIsOrdered
<1> QED
  BY <1>1, <1>2, <1>3 DEF IInv

(* A step that leaves the event alone and at most adds to what was         *)
(* fetched keeps all that is known of the event.                           *)
LEMMA EventKept ==
  ASSUME IInv, UNCHANGED capture, fetched \subseteq fetched', installed \subseteq installed'
  PROVE  /\ EventGrounds' /\ LocalFloor' /\ BlocksAreGrounded' /\ ShadowStaysBlocked'
         /\ injected => Grounds(ev.domain)'
<1>1. EventGrounds'
  BY ShadowAntitone DEF IInv, EventGrounds, capture, Matches, Hit
<1>2. LocalFloor'
  BY DEF IInv, LocalFloor, capture, Hit
<1>3. BlocksAreGrounded'
  BY GroundsMonotone DEF IInv, BlocksAreGrounded, capture
<1>4. ShadowStaysBlocked'
  BY ShadowAntitone, ListedAntitone DEF IInv, ShadowStaysBlocked, capture
<1>5. injected => Grounds(ev.domain)'
  BY GroundsMonotone DEF IInv, EnforcementIsOrdered, capture
<1> QED
  BY <1>1, <1>2, <1>3, <1>4, <1>5

-----------------------------------------------------------------------------
(* Every action preserves IInv.  A lemma for each group of actions: the    *)
(* Console and the first half of a poll, which leave the policy in force   *)
(* alone; the setters; the capture goroutine.                              *)
LEMMA PublishIInv == IInv /\ Publish => IInv'
<1> SUFFICES ASSUME IInv, Publish PROVE IInv'
  OBVIOUS
<1>1. TypeOK'
  BY PolicyAssumption DEF PolicyAssumption, IInv, TypeOK, Publish, policy, manager, capture
<1>2. Provenance' /\ ModeOrders'
  BY DEF IInv, Provenance, ModeOrders, Publish, policy, manager
<1>3. EventGrounds' /\ LocalFloor' /\ BlocksAreGrounded' /\ ShadowStaysBlocked'
  BY EventKept DEF Publish
<1>4. EnforcementIsOrdered'
  BY EventKept DEF IInv, EnforcementIsOrdered, Publish, capture
<1> QED
  BY <1>1, <1>2, <1>3, <1>4 DEF IInv

LEMMA SyncIInv == IInv /\ (Poll \/ Sync) => IInv'
<1> SUFFICES ASSUME IInv, Poll \/ Sync PROVE IInv'
  OBVIOUS
<1> USE DEF console, policy, capture
<1>1. UNCHANGED capture /\ fetched \subseteq fetched' /\ installed \subseteq installed'
  BY DEF Poll, Sync, FetchMode, FetchModeErrorPage, FetchModeGets, FetchModeFails,
         SetMode, FetchPolicy, FetchPolicyFails, SetBlacklist, SetAuthorized,
         SetDynamicCategories, IInv, TypeOK
<1>2. EventGrounds' /\ LocalFloor' /\ BlocksAreGrounded' /\ ShadowStaysBlocked'
  BY <1>1, EventKept
<1>3. injected' => Grounds(ev.domain)'
  BY <1>1, EventKept
<1>4. CASE Poll \/ FetchModeFails \/ FetchPolicyFails
  <2>1. TypeOK'
    BY <1>4 DEF IInv, TypeOK, Poll, FetchModeFails, FetchPolicyFails
  <2>2. Provenance' /\ ModeOrders'
    BY <1>4 DEF IInv, Provenance, ModeOrders, Poll, FetchModeFails, FetchPolicyFails
  <2>3. EnforcementIsOrdered'
    BY <1>3, <1>4 DEF IInv, EnforcementIsOrdered, Poll, FetchModeFails, FetchPolicyFails
  <2> QED
    BY <1>2, <2>1, <2>2, <2>3 DEF IInv
<1>5. CASE FetchMode \/ FetchModeErrorPage
  <2>1. TypeOK'
    BY <1>5 DEF IInv, TypeOK, FetchMode, FetchModeErrorPage, FetchModeGets
  <2>2. Provenance'
    BY <1>5 DEF IInv, Provenance, FetchMode, FetchModeErrorPage, FetchModeGets
  <2>3. ModeOrders'
    BY <1>5, PolicyAssumption
    DEF PolicyAssumption, IInv, ModeOrders, FetchMode, FetchModeErrorPage, FetchModeGets
  <2>4. EnforcementIsOrdered'
    BY <1>3, <1>5
    DEF IInv, EnforcementIsOrdered, FetchMode, FetchModeErrorPage, FetchModeGets
  <2> QED
    BY <1>2, <2>1, <2>2, <2>3, <2>4 DEF IInv
<1>6. CASE SetMode
  <2>1. TypeOK'
    BY <1>6 DEF IInv, TypeOK, SetMode
  <2>2. Provenance' /\ ModeOrders'
    BY <1>6 DEF IInv, Provenance, ModeOrders, SetMode
  <2>3. EnforcementIsOrdered'
    BY <1>3, <1>6 DEF IInv, EnforcementIsOrdered, ModeOrders, SetMode
  <2> QED
    BY <1>2, <2>1, <2>2, <2>3 DEF IInv
<1>7. CASE FetchPolicy
  <2>1. Parsed(cpolicy) \in Triple
    BY ParsedType DEF IInv, TypeOK
  <2>2. TypeOK'
    BY <1>7, <2>1 DEF IInv, TypeOK, FetchPolicy
  <2>3. Provenance' /\ ModeOrders'
    BY <1>7 DEF IInv, Provenance, ModeOrders, FetchPolicy
  <2>4. EnforcementIsOrdered'
    BY <1>3, <1>7 DEF IInv, EnforcementIsOrdered, FetchPolicy
  <2> QED
    BY <1>2, <2>2, <2>3, <2>4 DEF IInv
<1>8. CASE SetBlacklist
  <2>1. TypeOK'
    BY <1>8, PolicyAssumption DEF PolicyAssumption, IInv, TypeOK, SetBlacklist, Triple
  <2>2. Provenance' /\ ModeOrders'
    BY <1>8 DEF IInv, Provenance, ModeOrders, SetBlacklist
  <2>3. EnforcementIsOrdered'
    BY <1>3, <1>8 DEF IInv, EnforcementIsOrdered, SetBlacklist
  <2> QED
    BY <1>2, <2>1, <2>2, <2>3 DEF IInv
<1>9. CASE SetAuthorized
  <2>1. NormSet(gotPolicy.authorized) \subseteq Names
    <3>1. gotPolicy.authorized \subseteq Names
      BY DEF IInv, TypeOK, Triple
    <3>2. \A n \in gotPolicy.authorized : Norm[n] \in Names
      BY <3>1, PolicyAssumption DEF PolicyAssumption
    <3> QED
      BY <3>2 DEF NormSet
  <2>2. TypeOK'
    BY <1>9, <2>1 DEF IInv, TypeOK, SetAuthorized
  <2>3. Provenance' /\ ModeOrders'
    BY <1>9 DEF IInv, Provenance, ModeOrders, SetAuthorized, NormSet
  <2>4. EnforcementIsOrdered'
    BY <1>3, <1>9 DEF IInv, EnforcementIsOrdered, SetAuthorized
  <2> QED
    BY <1>2, <2>2, <2>3, <2>4 DEF IInv
<1>10. CASE SetDynamicCategories
  <2>1. cats' \subseteq SUBSET Names /\ NoPolicy \in Triple
    BY <1>10 DEF IInv, TypeOK, SetDynamicCategories, Triple, NoPolicy
  <2>2. TypeOK'
    BY <1>10, <2>1 DEF IInv, TypeOK, SetDynamicCategories
  <2>3. Provenance' /\ ModeOrders'
    BY <1>10 DEF IInv, Provenance, ModeOrders, SetDynamicCategories, NormSet
  <2>4. EnforcementIsOrdered'
    BY <1>3, <1>10 DEF IInv, EnforcementIsOrdered, SetDynamicCategories
  <2> QED
    BY <1>2, <2>2, <2>3, <2>4 DEF IInv
<1> QED
  BY <1>4, <1>5, <1>6, <1>7, <1>8, <1>9, <1>10 DEF Sync

LEMMA EventIInv ==
  IInv /\ ((\E d \in Traffic : ClassifyFull(d)) \/ Judge \/ Act) => IInv'
<1> SUFFICES ASSUME IInv, (\E d \in Traffic : ClassifyFull(d)) \/ Judge \/ Act
             PROVE  IInv'
  OBVIOUS
<1> USE DEF console, policy, manager
<1>1. UNCHANGED <<fetched, installed, mode, blacklist, authorized, policyActive, cats,
                  offered, cmode, gotMode, gotPolicy, ppc>>
  BY DEF ClassifyFull, Judge, Act
<1>2. Provenance' /\ ModeOrders'
  BY <1>1 DEF IInv, Provenance, ModeOrders
<1>3. CASE \E d \in Traffic : ClassifyFull(d)
  <2> PICK d \in Traffic : ClassifyFull(d)
    BY <1>3
  <2>1. TypeOK'
    BY DEF IInv, TypeOK, ClassifyFull, Matches, Hit
  <2>2. cpc' = "matched" /\ injected' = FALSE
    BY DEF ClassifyFull
  <2>3. EventGrounds'
    <3>1. ev' = [domain |-> d, matched |-> Matches(d, cats), blocked |-> FALSE,
                 installed |-> installed]
      BY DEF ClassifyFull
    <3>2. ev'.matched => \E p \in fetched : Matches(d, p.cats)
      BY <3>1 DEF IInv, Provenance, Matches
    <3>3. ((\E p \in installed : p.cats # {}) /\ Shadow(d)) => Matches(d, cats)
      BY DEF IInv, Provenance, Shadow
    <3> QED
      BY <1>1, <3>1, <3>2, <3>3 DEF EventGrounds, Shadow, Matches, Hit
  <2>4. LocalFloor' /\ BlocksAreGrounded' /\ ShadowStaysBlocked'
    BY <2>2 DEF LocalFloor, BlocksAreGrounded, ShadowStaysBlocked
  <2>5. EnforcementIsOrdered'
    BY <1>1, <2>2 DEF IInv, EnforcementIsOrdered
  <2> QED
    BY <1>2, <2>1, <2>3, <2>4, <2>5 DEF IInv
<1>4. CASE Judge
  <2> DEFINE d == ev.domain
  <2>1. d \in Traffic /\ ev'.domain = d /\ ev'.matched = ev.matched /\ ev'.installed = ev.installed
        /\ cpc' = "judged" /\ cpc # "idle" /\ injected' = injected
    BY <1>4 DEF IInv, TypeOK, Judge
  <2>2. ev'.blocked = (Hit(d, blacklist) \/ (policyActive /\ ~Hit(d, authorized) /\ ev.matched))
    BY <1>4, <2>1, VerdictOnTraffic DEF IInv, TypeOK, Judge
  <2>3. TypeOK'
    <3>1. IsBlocked(ev.domain, ev.matched) \in BOOLEAN
      BY DEF IsBlocked, Hit
    <3> QED
      BY <1>4, <3>1 DEF IInv, TypeOK, Judge
  <2>4. EventGrounds'
    BY <1>1, <2>1 DEF IInv, EventGrounds, Shadow, Matches, Hit
  <2>5. LocalFloor'
    BY <2>1, <2>2 DEF IInv, Provenance, LocalFloor, Hit
  <2>6. BlocksAreGrounded'
    <3> SUFFICES ASSUME ev'.blocked PROVE Grounds(d)
      BY <1>1, <2>1 DEF BlocksAreGrounded, Grounds, Matches, Hit
    <3>1. CASE Hit(d, blacklist)
      BY <3>1 DEF IInv, Provenance, Grounds, Hit
    <3>2. CASE policyActive /\ ~Hit(d, authorized) /\ ev.matched
      <4>1. PICK p \in fetched : Matches(d, p.cats)
        BY <2>1, <3>2 DEF IInv, EventGrounds
      <4>2. PICK q \in fetched : authorized = NormSet(q.authorized)
        BY <3>2 DEF IInv, Provenance
      <4> QED
        BY <3>2, <4>1, <4>2 DEF Grounds
    <3> QED
      BY <2>2, <3>1, <3>2
  <2>7. ShadowStaysBlocked'
    <3> SUFFICES ASSUME \/ ev.installed # {} /\ Listed(d)
                        \/ (\E p \in ev.installed : p.cats # {}) /\ Shadow(d)
                 PROVE  ev'.blocked
      BY <1>1, <2>1 DEF ShadowStaysBlocked, Listed, Shadow, Matches, Hit
    <3>1. CASE ev.installed # {} /\ Listed(d)
      <4>1. PICK p \in fetched : blacklist = Local \cup p.blocked
        BY <2>1, <3>1 DEF IInv, EventGrounds, Provenance
      <4>2. Hit(d, p.blocked)
        BY <3>1 DEF Listed
      <4> QED
        BY <2>2, <4>1, <4>2, HitMonotone
    <3>2. CASE (\E p \in ev.installed : p.cats # {}) /\ Shadow(d)
      <4>1. policyActive /\ ev.matched
        BY <2>1, <3>2 DEF IInv, EventGrounds, Provenance
      <4>2. ~Hit(d, authorized)
        BY <3>2, <4>1 DEF IInv, Provenance, Shadow
      <4> QED
        BY <2>2, <4>1, <4>2
    <3> QED
      BY <3>1, <3>2
  <2>8. EnforcementIsOrdered'
    BY <1>1, <2>1 DEF IInv, EnforcementIsOrdered, Grounds, Matches, Hit
  <2> QED
    BY <1>2, <2>3, <2>4, <2>5, <2>6, <2>7, <2>8 DEF IInv
<1>5. CASE Act
  <2>1. ev' = ev /\ cpc' = "idle" /\ cpc = "judged"
        /\ injected' = (mode = "enforcement" /\ ev.blocked)
    BY <1>5 DEF Act
  <2>2. TypeOK'
    BY <1>5 DEF IInv, TypeOK, Act
  <2>3. EventGrounds' /\ LocalFloor' /\ BlocksAreGrounded' /\ ShadowStaysBlocked'
    BY <2>1 DEF EventGrounds, LocalFloor, BlocksAreGrounded, ShadowStaysBlocked
  <2>4. EnforcementIsOrdered'
    BY <1>1, <2>1 DEF IInv, EnforcementIsOrdered, BlocksAreGrounded, Grounds, Matches, Hit
  <2> QED
    BY <1>2, <2>2, <2>3, <2>4 DEF IInv
<1> QED
  BY <1>3, <1>4, <1>5

LEMMA StutterIInv == IInv /\ UNCHANGED vars => IInv'
BY DEF IInv, TypeOK, Provenance, EventGrounds, ModeOrders, LocalFloor,
       BlocksAreGrounded, ShadowStaysBlocked, EnforcementIsOrdered, Grounds, Shadow,
       Listed, Matches, Hit, vars, console, policy, manager, capture

-----------------------------------------------------------------------------
THEOREM Invariance == Spec => []IInv
<1>1. IInv /\ [Next]_vars => IInv'
  BY PublishIInv, SyncIInv, EventIInv, StutterIInv DEF Next
<1> QED
  BY InitIInv, <1>1, PTL DEF Spec

(* The pieces of the policy keep their types, and the engine is always in  *)
(* one of its two modes, whatever the Console or a proxy answers.          *)
THEOREM TypeCorrect == Spec => []TypeOK
BY Invariance, PTL DEF IInv

(* However polls and events interleave, the local blacklist is a floor     *)
(* under every verdict.                                                    *)
THEOREM LocalBlacklistHolds == Spec => []LocalFloor
BY Invariance, PTL DEF IInv

(* No block without grounds in policies that were received.                *)
THEOREM BlocksHaveGrounds == Spec => []BlocksAreGrounded
BY Invariance, PTL DEF IInv

(* A domain that every policy received lists, or that the categories of    *)
(* every one with categories match while none authorizes it, stays blocked *)
(* once a policy that blocks in this way is installed to the end           *)
(* (policy.go:60-69).                                                      *)
THEOREM SameWayStaysBlocked == Spec => []ShadowStaysBlocked
BY Invariance, PTL DEF IInv

(* Packets are forged only by order of the configuration or the Console.   *)
THEOREM InjectionIsOrdered == Spec => []EnforcementIsOrdered
BY Invariance, PTL DEF IInv
=============================================================================
