-------------------------- MODULE BlockRulesProofs --------------------------
(***************************************************************************)
(* Theorems about BlockRules, for every set of domains and of policies and *)
(* every number of failures and restarts: what a rule is grounded on and   *)
(* how many copies of it there can be.  The inductive invariant IInv says  *)
(* the same of the rules that the two syncs are still to insert.           *)
(***************************************************************************)
EXTENDS BlockRules, TLAPS

(* Policies the Console served justify the rule r. *)
Grounded(r) ==
  /\ \E p \in offered : p.enabled
  /\ \E p \in offered : p.mode = "enforcement"
  /\ \E p \in offered : r[2] \notin p.authorized

(* The arguments of a sync are a policy served, or put together from three *)
(* when main has read the snapshot again.                                  *)
Fetched == {"install", "mode", "authorized", "list"}
Mixture(a) ==
  \E p, q, u \in offered :
    a = [mode |-> p.mode, enabled |-> q.enabled, authorized |-> u.authorized]
Arguments ==
  /\ console \in offered
  /\ \A t \in Threads : pc[t] = "install" => args[t] \in offered
  /\ \A t \in Threads : pc[t] \in Fetched => Mixture(args[t])
  /\ pc["main"] \in {"mode", "authorized"} => snapshot \in offered

(* A sync has steps to run only while it runs, and inserts with grounds. *)
Plans ==
  /\ \A t \in Threads : pc[t] # "run" => todo[t] = {}
  /\ \A t \in Threads : \A s \in todo[t] : s.op = "insert" => Grounded(RuleOf(s))

(* Insertions of r into chain c that thread t has yet to run. *)
Insertion(c, r) == [kind |-> r[1], op |-> "insert", domain |-> r[2], chain |-> c]
Owed(t, c, r) == IF Insertion(c, r) \in todo[t] THEN 1 ELSE 0

Budget ==
  \A c \in Chains, r \in Rules :
    copies[c][r] + Owed("main", c, r) + Owed("loop", c, r) <= 2 + blind

(* A process that has ended runs nothing. *)
Idle == ~up => \A t \in Threads : todo[t] = {}

IInv ==
  /\ TypeOK /\ Idle /\ Arguments /\ Plans /\ RulesHaveGrounds /\ Budget

-----------------------------------------------------------------------------
(* A policy is in Mixed, and so is every mixture of policies. *)
LEMMA MixedType ==
  /\ \A p \in Policy : p \in Mixed
  /\ \A a, b \in Mixed : /\ [a EXCEPT !.mode = b.mode] \in Mixed
                         /\ [a EXCEPT !.authorized = b.authorized] \in Mixed
<1>1. \A p \in Policy : p \in Mixed
  <2> SUFFICES ASSUME NEW p \in Policy PROVE p \in Mixed
    OBVIOUS
  <2>1. /\ p = [mode |-> p.mode, enabled |-> p.enabled, authorized |-> p.authorized]
        /\ p.enabled \in BOOLEAN /\ p.authorized \subseteq Known
    <3>1. CASE p \in Policies
      BY <3>1, BlockRulesAssumption DEF BlockRulesAssumption
    <3>2. CASE p = DefaultPolicy
      BY <3>2 DEF DefaultPolicy
    <3> QED
      BY <3>1, <3>2 DEF Policy
  <2>2. p.mode \in {q.mode : q \in Policy}
    OBVIOUS
  <2> QED
    BY <2>1, <2>2 DEF Mixed
<1>2. \A a, b \in Mixed : /\ [a EXCEPT !.mode = b.mode] \in Mixed
                          /\ [a EXCEPT !.authorized = b.authorized] \in Mixed
  BY DEF Mixed
<1> QED
  BY <1>1, <1>2

(* The Console only adds to what it has offered, so grounds are kept. *)
LEMMA GroundsKept ==
  ASSUME offered \subseteq offered'
  PROVE  /\ \A r : Grounded(r) => Grounded(r)'
         /\ \A a : Mixture(a) => Mixture(a)'
BY DEF Grounded, Mixture

(* An insertion is determined by its chain and its rule. *)
LEMMA InsertionOf ==
  ASSUME NEW s \in Step
  PROVE  /\ RuleOf(s) \in Rules
         /\ s.op = "insert" => s = Insertion(s.chain, RuleOf(s))
BY DEF Step, RuleOf, Rules, Insertion

(* A mixture of served policies that asks for a rule is its grounds. *)
LEMMA MixtureGrounds ==
  ASSUME NEW a, Mixture(a), NEW r \in Expected(a)
  PROVE  Grounded(r)
BY DEF Mixture, Expected, Grounded

-----------------------------------------------------------------------------
LEMMA InitIInv == Init => IInv
<1> SUFFICES ASSUME Init PROVE IInv
  OBVIOUS
<1> USE DEF Init
<1>1. TypeOK
  <2>1. DefaultPolicy \in Policy /\ DefaultPolicy \in Mixed
    BY DEF Policy, Mixed, DefaultPolicy
  <2>2. copies \in [Chains -> [Rules -> Nat]]
    OBVIOUS
  <2>3. args \in [Threads -> Mixed] /\ todo \in [Threads -> SUBSET Step]
    BY <2>1
  <2>4. pc \in [Threads -> {"sleep", "fetch", "install", "mode", "authorized", "list",
                            "run", "done"}]
    OBVIOUS
  <2>5. /\ console \in Policies /\ offered \subseteq Policies
        /\ changes \in 0..MaxPublish /\ faults \in 0..MaxFaults /\ blind \in 0..faults
        /\ boot \in 1..MaxBoots
    BY BlockRulesAssumption DEF BlockRulesAssumption
  <2>6. up \in BOOLEAN /\ stopped \in BOOLEAN /\ snapshot \in Policy
    BY <2>1
  <2> QED
    BY <2>2, <2>3, <2>4, <2>5, <2>6 DEF TypeOK
<1>2. Idle /\ Arguments /\ Plans
  BY DEF Idle, Arguments, Plans, Fetched, Threads
<1>3. RulesHaveGrounds
  BY DEF RulesHaveGrounds
<1>4. Budget
  BY DEF Budget, Owed, Threads
<1> QED
  BY <1>1, <1>2, <1>3, <1>4 DEF IInv

-----------------------------------------------------------------------------
(* A step that touches neither rules nor plans keeps what is said of them. *)
LEMMA RulesKept ==
  ASSUME IInv, UNCHANGED <<kernel, todo>>, offered \subseteq offered'
  PROVE  /\ RulesHaveGrounds' /\ Budget'
         /\ \A t \in Threads : \A s \in todo'[t] : s.op = "insert" => Grounded(RuleOf(s))'
<1>1. copies' = copies /\ blind' = blind /\ todo' = todo
  BY DEF kernel
<1>2. RulesHaveGrounds'
  BY <1>1 DEF IInv, RulesHaveGrounds
<1>3. Budget'
  BY <1>1 DEF IInv, Budget, Owed
<1>4. \A t \in Threads : \A s \in todo'[t] : s.op = "insert" => Grounded(RuleOf(s))'
  BY <1>1, GroundsKept DEF IInv, Plans
<1> QED
  BY <1>2, <1>3, <1>4

LEMMA PublishIInv ==
  ASSUME IInv, NEW p \in Policies, Publish(p)
  PROVE  IInv'
<1> USE DEF Publish, kernel, process, threads
<1>0. offered \subseteq offered' /\ UNCHANGED <<kernel, process, snapshot, threads>>
  OBVIOUS
<1>1. TypeOK'
  BY BlockRulesAssumption DEF BlockRulesAssumption, IInv, TypeOK
<1>2. Arguments'
  BY <1>0, GroundsKept DEF IInv, Arguments
<1>3. RulesHaveGrounds' /\ Budget' /\ Plans' /\ Idle'
  BY <1>0, RulesKept DEF IInv, Plans, Idle
<1> QED
  BY <1>1, <1>2, <1>3 DEF IInv

(* What such a step has to show: it moves on, its arguments are a mixture   *)
(* of policies served whenever it goes on towards its sync, and what main  *)
(* is to read back is a policy served.                                     *)
LEMMA FetchingKeeps ==
  ASSUME IInv, NEW t \in Threads, NEW l, UNCHANGED <<served, kernel, process, todo>>,
         pc[t] # "run" \/ todo[t] = {},
         pc' = [pc EXCEPT ![t] = l],
         l \in {"sleep", "fetch", "install", "mode", "authorized", "list", "done"},
         snapshot' \in Policy, args' \in [Threads -> Mixed],
         \A u \in Threads : u # t => args'[u] = args[u],
         l = "install" => args'[t] \in offered,
         l \in Fetched => Mixture(args'[t]),
         snapshot' = snapshot \/ snapshot' \in offered,
         (t = "main" /\ l \in {"mode", "authorized"}) => snapshot' \in offered
  PROVE  IInv'
<1>1. pc \in [Threads -> {"sleep", "fetch", "install", "mode", "authorized", "list",
                          "run", "done"}]
  BY DEF IInv, TypeOK
<1>2. \A u \in Threads : pc'[u] = IF u = t THEN l ELSE pc[u]
  BY <1>1
<1>3. offered' = offered /\ console' = console /\ todo' = todo
  BY DEF served
<1>4. TypeOK'
  <2>1. pc' \in [Threads -> {"sleep", "fetch", "install", "mode", "authorized", "list",
                             "run", "done"}]
    BY <1>1
  <2> QED
    BY <2>1 DEF IInv, TypeOK, served, kernel, process
<1>5. Arguments'
  <2>1. console' \in offered'
    BY <1>3 DEF IInv, Arguments
  <2>2. ASSUME NEW u \in Threads, pc'[u] \in Fetched
        PROVE  Mixture(args[u])'
    <3>1. CASE u = t
      BY <1>2, <1>3, <2>2, <3>1 DEF Mixture
    <3>2. CASE u # t
      <4>1. args'[u] = args[u] /\ pc[u] \in Fetched
        BY <1>2, <2>2, <3>2 DEF Fetched
      <4>2. Mixture(args[u])
        BY <4>1 DEF IInv, Arguments
      <4>3. PICK p, q, v \in offered :
              args[u] = [mode |-> p.mode, enabled |-> q.enabled, authorized |-> v.authorized]
        BY <4>2 DEF Mixture
      <4>4. args'[u] = [mode |-> p.mode, enabled |-> q.enabled, authorized |-> v.authorized]
        BY <4>1, <4>3
      <4> QED
        BY <1>3, <4>4 DEF Mixture
    <3> QED
      BY <3>1, <3>2
  <2>3. ASSUME NEW u \in Threads, pc'[u] = "install"
        PROVE  args'[u] \in offered'
    BY <1>2, <1>3, <2>3 DEF IInv, Arguments
  <2>4. ASSUME pc'["main"] \in {"mode", "authorized"}
        PROVE  snapshot' \in offered'
    BY <1>2, <1>3, <2>4 DEF IInv, Arguments, Threads
  <2> QED
    BY <2>1, <2>2, <2>3, <2>4 DEF Arguments
<1>6. \A u \in Threads : pc'[u] # "run" => todo'[u] = {}
  BY <1>2, <1>3 DEF IInv, Plans
<1>7. RulesHaveGrounds' /\ Budget' /\ Plans' /\ Idle'
  BY <1>3, <1>6, RulesKept DEF IInv, Plans, Idle, process
<1> QED
  BY <1>4, <1>5, <1>7 DEF IInv

(* The steps of a thread outside its sync. *)
LEMMA FetchingIInv ==
  ASSUME IInv, NEW t \in Threads,
         \/ t = "loop" /\ Wake
         \/ Fetch(t) \/ FetchFails(t)
         \/ Install(t)
         \/ t = "main" /\ (ReadMode \/ ReadAuthorized)
         \/ SyncEnds(t)
  PROVE  IInv'
<1>a. /\ pc \in [Threads -> {"sleep", "fetch", "install", "mode", "authorized", "list",
                             "run", "done"}]
      /\ args \in [Threads -> Mixed] /\ snapshot \in Policy
      /\ console \in Policies /\ offered \subseteq Policies
  BY DEF IInv, TypeOK
<1>b. \A p \in Policies : p \in Policy /\ p \in Mixed
  BY MixedType DEF Policy
<1>c. console \in offered /\ (pc[t] \in Fetched => Mixture(args[t]))
  BY DEF IInv, Arguments
<1>d. \A p \in offered : Mixture(p)
  BY <1>a, BlockRulesAssumption DEF Mixture, BlockRulesAssumption
<1>1. CASE t = "loop" /\ Wake
  BY <1>1, <1>a, FetchingKeeps DEF Wake, Goto, Fetched
<1>2. CASE Fetch(t)
  BY <1>2, <1>a, <1>b, <1>c, <1>d, FetchingKeeps DEF Fetch, Goto
<1>3. CASE FetchFails(t)
  BY <1>3, <1>a, FetchingKeeps DEF FetchFails, Goto, Rest, Fetched
<1>4. CASE Install(t)
  <2>1. args[t] \in offered /\ Mixture(args[t])
    BY <1>4, <1>d DEF Install, IInv, Arguments
  <2> QED
    BY <1>4, <1>a, <1>b, <2>1, FetchingKeeps DEF Install, Goto, AfterInstall
<1>5. CASE t = "main" /\ ReadMode
  <2>1. snapshot \in offered /\ Mixture(args["main"])
    BY <1>5, <1>c DEF ReadMode, IInv, Arguments, Fetched
  <2>2. args' = [args EXCEPT !["main"] = [@ EXCEPT !.mode = snapshot.mode]]
    BY <1>5 DEF ReadMode
  <2>3. args'["main"] \in Mixed /\ Mixture(args'["main"])
    <3>1. args'["main"] = [args["main"] EXCEPT !.mode = snapshot.mode]
      BY <1>a, <2>2 DEF Threads
    <3>2. [args["main"] EXCEPT !.mode = snapshot.mode] \in Mixed
      BY <1>a, <2>1, <1>b, MixedType DEF Threads
    <3>3. Mixture([args["main"] EXCEPT !.mode = snapshot.mode])
      <4>1. PICK p, q, u \in offered :
              args["main"] = [mode |-> p.mode, enabled |-> q.enabled,
                              authorized |-> u.authorized]
        BY <2>1 DEF Mixture
      <4>2. [args["main"] EXCEPT !.mode = snapshot.mode]
              = [mode |-> snapshot.mode, enabled |-> q.enabled, authorized |-> u.authorized]
        BY <4>1
      <4> QED
        BY <2>1, <4>2 DEF Mixture
    <3> QED
      BY <3>1, <3>2, <3>3
  <2>4. args' \in [Threads -> Mixed] /\ \A u \in Threads : u # t => args'[u] = args[u]
    BY <1>5, <1>a, <2>2, <2>3
  <2>5. /\ UNCHANGED <<served, kernel, process, todo, snapshot>> /\ pc[t] # "run"
        /\ pc' = [pc EXCEPT ![t] = "authorized"]
    BY <1>5 DEF ReadMode, Goto
  <2> QED
    BY <1>5, <1>a, <2>1, <2>3, <2>4, <2>5, FetchingKeeps
<1>6. CASE t = "main" /\ ReadAuthorized
  <2>1. snapshot \in offered /\ Mixture(args["main"])
    BY <1>6, <1>c DEF ReadAuthorized, IInv, Arguments, Fetched
  <2>2. args' = [args EXCEPT !["main"] = [@ EXCEPT !.authorized = snapshot.authorized]]
    BY <1>6 DEF ReadAuthorized
  <2>3. args'["main"] \in Mixed /\ Mixture(args'["main"])
    <3>1. args'["main"] = [args["main"] EXCEPT !.authorized = snapshot.authorized]
      BY <1>a, <2>2 DEF Threads
    <3>2. [args["main"] EXCEPT !.authorized = snapshot.authorized] \in Mixed
      BY <1>a, <2>1, <1>b, MixedType DEF Threads
    <3>3. Mixture([args["main"] EXCEPT !.authorized = snapshot.authorized])
      <4>1. PICK p, q, u \in offered :
              args["main"] = [mode |-> p.mode, enabled |-> q.enabled,
                              authorized |-> u.authorized]
        BY <2>1 DEF Mixture
      <4>2. [args["main"] EXCEPT !.authorized = snapshot.authorized]
              = [mode |-> p.mode, enabled |-> q.enabled, authorized |-> snapshot.authorized]
        BY <4>1
      <4> QED
        BY <2>1, <4>2 DEF Mixture
    <3> QED
      BY <3>1, <3>2, <3>3
  <2>4. args' \in [Threads -> Mixed] /\ \A u \in Threads : u # t => args'[u] = args[u]
    BY <1>6, <1>a, <2>2, <2>3
  <2>5. /\ UNCHANGED <<served, kernel, process, todo, snapshot>> /\ pc[t] # "run"
        /\ pc' = [pc EXCEPT ![t] = "list"]
    BY <1>6 DEF ReadAuthorized, Goto
  <2> QED
    BY <1>6, <1>a, <2>1, <2>3, <2>4, <2>5, FetchingKeeps
<1>7. CASE SyncEnds(t)
  BY <1>7, <1>a, FetchingKeeps DEF SyncEnds, Goto, Rest, Fetched
<1> QED
  BY <1>1, <1>2, <1>3, <1>4, <1>5, <1>6, <1>7

-----------------------------------------------------------------------------
(* A listing that saw the rules plans no insertion of one that is there; a *)
(* blind one may, and is counted.                                          *)
LEMMA ListingKeeps ==
  ASSUME IInv, NEW t \in Threads, NEW A, up, pc[t] = "list",
         todo' = [todo EXCEPT ![t] = Steps(Expected(args[t]), A)],
         pc' = [pc EXCEPT ![t] = "run"],
         UNCHANGED <<served, copies, process, snapshot, args>>,
         faults' \in 0..MaxFaults, blind' \in 0..faults',
         \/ blind' = blind /\ A = Listed
         \/ blind' = blind + 1
  PROVE  IInv'
<1> DEFINE Planned == Steps(Expected(args[t]), A)
<1>1. /\ todo \in [Threads -> SUBSET Step] /\ blind \in Nat
      /\ copies \in [Chains -> [Rules -> Nat]]
      /\ pc \in [Threads -> {"sleep", "fetch", "install", "mode", "authorized", "list",
                             "run", "done"}]
  BY BlockRulesAssumption DEF BlockRulesAssumption, IInv, TypeOK
<1>2. \A u \in Threads : /\ pc'[u] = IF u = t THEN "run" ELSE pc[u]
                         /\ todo'[u] = IF u = t THEN Planned ELSE todo[u]
  BY <1>1
<1>3. offered' = offered /\ console' = console /\ Mixture(args[t]) /\ todo[t] = {}
  BY DEF served, IInv, Arguments, Plans, Fetched
<1>4. Planned \subseteq Step
  BY DEF Steps
<1>5. TypeOK'
  <2>1. todo' \in [Threads -> SUBSET Step]
    BY <1>1, <1>4
  <2>2. pc' \in [Threads -> {"sleep", "fetch", "install", "mode", "authorized", "list",
                             "run", "done"}]
    BY <1>1
  <2> HIDE DEF Planned
  <2> QED
    BY <2>1, <2>2 DEF IInv, TypeOK, served, process
<1>6. Arguments'
  <2>1. \A u \in Threads : pc'[u] # "run" => pc'[u] = pc[u]
    BY <1>2
  <2>2. ASSUME NEW u \in Threads, pc'[u] \in Fetched
        PROVE  Mixture(args[u])'
    <3>1. pc[u] \in Fetched
      BY <2>1, <2>2 DEF Fetched
    <3>2. Mixture(args[u])
      BY <3>1 DEF IInv, Arguments
    <3> QED
      BY <1>3, <3>2 DEF Mixture
  <2>3. \A u \in Threads : pc'[u] = "install" => args'[u] \in offered'
    BY <1>3, <2>1 DEF IInv, Arguments
  <2>4. pc'["main"] \in {"mode", "authorized"} => snapshot' \in offered'
    BY <1>3, <2>1 DEF IInv, Arguments, Threads
  <2>5. console' \in offered'
    BY <1>3 DEF IInv, Arguments
  <2> QED
    BY <2>2, <2>3, <2>4, <2>5 DEF Arguments
<1>7. Plans'
  <2>1. \A u \in Threads : pc'[u] # "run" => todo'[u] = {}
    BY <1>2 DEF IInv, Plans
  <2>2. \A s \in Planned : s.op = "insert" => Grounded(RuleOf(s))
    BY <1>3, MixtureGrounds DEF Steps
  <2>3. ASSUME NEW u \in Threads, NEW s \in todo'[u], s.op = "insert"
        PROVE  Grounded(RuleOf(s))'
    <3>1. Grounded(RuleOf(s))
      BY <1>2, <2>2, <2>3 DEF IInv, Plans
    <3> QED
      BY <1>3, <3>1 DEF Grounded
  <2> QED
    BY <2>1, <2>3 DEF Plans
<1>8. RulesHaveGrounds'
  BY <1>3 DEF IInv, RulesHaveGrounds
<1>9. Budget'
  <2> SUFFICES ASSUME NEW c \in Chains, NEW r \in Rules
               PROVE  copies[c][r] + Owed("main", c, r)' + Owed("loop", c, r)' <= 2 + blind'
    BY DEF Budget
  <2> DEFINE o(u) == Owed(u, c, r)
             n(u) == IF Insertion(c, r) \in todo'[u] THEN 1 ELSE 0
  <2>1. Owed("main", c, r)' = n("main") /\ Owed("loop", c, r)' = n("loop")
    BY DEF Owed, Insertion
  <2>2. /\ \A u \in Threads : n(u) \in {0, 1} /\ o(u) \in {0, 1}
        /\ \A u \in Threads : u # t => n(u) = o(u)
    BY <1>2 DEF Owed
  <2>3. o(t) = 0
    BY <1>3 DEF Owed
  <2>4. copies[c][r] + o("main") + o("loop") <= 2 + blind /\ copies[c][r] \in Nat
    BY <1>1 DEF IInv, Budget
  <2>5. A = Listed => (n(t) = 0 \/ copies[c][r] = 0)
    <3> SUFFICES ASSUME A = Listed, Insertion(c, r) \in Planned
                 PROVE  copies[c][r] = 0
      BY <1>2
    <3>1. RuleOf(Insertion(c, r)) = r /\ Insertion(c, r).op = "insert"
      BY DEF RuleOf, Insertion, Rules
    <3>2. r \notin Listed
      BY <3>1 DEF Steps
    <3> QED
      BY <2>4, <3>2 DEF Listed
  <2>6. t = "main" \/ t = "loop"
    BY DEF Threads
  <2> HIDE DEF o, n
  <2> QED
    BY <1>1, <2>1, <2>2, <2>3, <2>4, <2>5, <2>6 DEF Threads
<1>10. Idle'
  BY DEF IInv, Idle, process
<1> QED
  BY <1>5, <1>6, <1>7, <1>8, <1>9, <1>10 DEF IInv

LEMMA ListIInv ==
  ASSUME IInv, NEW t \in Threads, List(t) \/ ListFails(t)
  PROVE  IInv'
<1>1. faults \in 0..MaxFaults /\ blind \in 0..faults /\ MaxFaults \in Nat
  BY BlockRulesAssumption DEF BlockRulesAssumption, IInv, TypeOK
<1>2. CASE List(t)
  BY <1>1, <1>2, ListingKeeps DEF List, Goto, kernel
<1>3. CASE ListFails(t)
  <2>1. faults' \in 0..MaxFaults /\ blind' \in 0..faults' /\ blind' = blind + 1
    BY <1>1, <1>3 DEF ListFails
  <2>2. /\ up /\ pc[t] = "list" /\ pc' = [pc EXCEPT ![t] = "run"]
        /\ todo' = [todo EXCEPT ![t] = Steps(Expected(args[t]), {})]
        /\ UNCHANGED <<served, copies, process, snapshot, args>>
    BY <1>3 DEF ListFails, Goto
  <2> QED
    BY <2>1, <2>2, ListingKeeps
<1> QED
  BY <1>2, <1>3

(* A command turns a planned insertion into a copy, or takes one away.     *)
LEMMA CommandIInv ==
  ASSUME IInv, NEW t \in Threads, NEW s \in todo[t],
         Command(t, s) \/ CommandFails(t, s)
  PROVE  IInv'
<1> DEFINE r0 == RuleOf(s)
           old == copies[s.chain][r0]
           new == IF s.op = "insert" THEN old + 1 ELSE IF old > 0 THEN old - 1 ELSE 0
<1>1. /\ todo \in [Threads -> SUBSET Step] /\ blind \in Nat /\ MaxFaults \in Nat
      /\ copies \in [Chains -> [Rules -> Nat]]
      /\ faults \in 0..MaxFaults /\ blind \in 0..faults
  BY BlockRulesAssumption DEF BlockRulesAssumption, IInv, TypeOK
<1>2. s \in Step /\ s.chain \in Chains /\ r0 \in Rules /\ old \in Nat /\ new \in Nat
  BY <1>1 DEF Step, RuleOf, Rules
<1>3. /\ UNCHANGED <<served, process, snapshot, pc, args>> /\ up /\ pc[t] = "run"
      /\ todo' = [todo EXCEPT ![t] = @ \ {s}]
  BY DEF Command, CommandFails, NextStep
<1>4. /\ blind' = blind /\ faults' \in 0..MaxFaults /\ blind' \in 0..faults'
      /\ copies' \in [Chains -> [Rules -> Nat]]
      /\ \A c \in Chains, r \in Rules :
            copies'[c][r] = copies[c][r] \/ (c = s.chain /\ r = r0 /\ copies'[c][r] = new)
  <2>1. CASE Command(t, s)
    <3>1. copies' = [copies EXCEPT ![s.chain] = [@ EXCEPT ![r0] = new]]
      BY <2>1 DEF Command
    <3>2. blind' = blind /\ faults' = faults
      BY <2>1 DEF Command
    <3> HIDE DEF new, r0
    <3>3. copies' \in [Chains -> [Rules -> Nat]]
      BY <1>1, <1>2, <3>1
    <3>4. ASSUME NEW c \in Chains, NEW r \in Rules
          PROVE  copies'[c][r] = copies[c][r] \/ (c = s.chain /\ r = r0 /\ copies'[c][r] = new)
      BY <1>1, <1>2, <3>1
    <3> QED
      BY <1>1, <3>2, <3>3, <3>4
  <2>2. CASE CommandFails(t, s)
    BY <1>1, <2>2 DEF CommandFails
  <2> QED
    BY <2>1, <2>2
<1>5. \A u \in Threads : todo'[u] = IF u = t THEN todo[t] \ {s} ELSE todo[u]
  BY <1>1, <1>3
<1>6. TypeOK'
  <2>1. todo' \in [Threads -> SUBSET Step]
    BY <1>1, <1>3
  <2> HIDE DEF new, r0
  <2> QED
    BY <1>3, <1>4, <2>1 DEF IInv, TypeOK, served, process
<1>7. Arguments' /\ Idle'
  <2>1. offered' = offered /\ console' = console /\ args' = args /\ pc' = pc
    BY <1>3 DEF served
  <2>2. \A u \in Threads : Mixture(args[u])' <=> Mixture(args[u])
    BY <2>1 DEF Mixture
  <2> QED
    BY <1>3, <2>1, <2>2 DEF IInv, Arguments, Idle, process
<1>8. Plans'
  <2>1. \A u \in Threads : pc'[u] # "run" => todo'[u] = {}
    BY <1>3, <1>5 DEF IInv, Plans
  <2>2. ASSUME NEW u \in Threads, NEW x \in todo'[u], x.op = "insert"
        PROVE  Grounded(RuleOf(x))'
    <3>1. Grounded(RuleOf(x))
      BY <1>5, <2>2 DEF IInv, Plans
    <3> QED
      BY <1>3, <3>1 DEF Grounded, served
  <2> QED
    BY <2>1, <2>2 DEF Plans
<1>9. RulesHaveGrounds'
  <2> SUFFICES ASSUME NEW c \in Chains, NEW r \in Rules, copies'[c][r] > 0
               PROVE  Grounded(r)
    BY <1>3 DEF RulesHaveGrounds, Grounded, served
  <2>1. CASE copies[c][r] > 0
    BY <2>1 DEF IInv, RulesHaveGrounds, Grounded
  <2>2. CASE ~(copies[c][r] > 0)
    <3>1. r = r0 /\ s.op = "insert"
      BY <1>1, <1>2, <1>4, <2>2
    <3> QED
      BY <3>1 DEF IInv, Plans
  <2> QED
    BY <2>1, <2>2
<1>10. Budget'
  <2> SUFFICES ASSUME NEW c \in Chains, NEW r \in Rules
               PROVE  copies'[c][r] + Owed("main", c, r)' + Owed("loop", c, r)' <= 2 + blind
    BY <1>4 DEF Budget
  <2> DEFINE o(u) == Owed(u, c, r)
             n(u) == IF Insertion(c, r) \in todo'[u] THEN 1 ELSE 0
  <2>1. Owed("main", c, r)' = n("main") /\ Owed("loop", c, r)' = n("loop")
    BY DEF Owed, Insertion
  <2>2. \A u \in Threads : n(u) \in {0, 1} /\ o(u) \in {0, 1} /\ n(u) <= o(u)
    BY <1>5 DEF Owed
  <2>3. /\ copies[c][r] + o("main") + o("loop") <= 2 + blind
        /\ copies[c][r] \in Nat /\ copies'[c][r] \in Nat
    BY <1>1, <1>4 DEF IInv, Budget
  <2>4. \/ copies'[c][r] <= copies[c][r]
        \/ copies'[c][r] = copies[c][r] + 1 /\ o(t) = 1 /\ n(t) = 0
    <3>1. CASE copies'[c][r] = copies[c][r]
      BY <2>3, <3>1
    <3>2. CASE c = s.chain /\ r = r0 /\ copies'[c][r] = new
      <4>1. CASE s.op = "insert"
        <5>1. s = Insertion(c, r)
          BY <1>2, <3>2, <4>1, InsertionOf
        <5> QED
          BY <1>5, <3>2, <4>1, <5>1 DEF Owed
      <4>2. CASE s.op # "insert"
        BY <1>2, <3>2, <4>2
      <4> QED
        BY <4>1, <4>2
    <3> QED
      BY <1>4, <3>1, <3>2
  <2>5. t = "main" \/ t = "loop"
    BY DEF Threads
  <2> HIDE DEF o, n, new
  <2> QED
    BY <1>1, <2>1, <2>2, <2>3, <2>4, <2>5 DEF Threads
<1> QED
  BY <1>6, <1>7, <1>8, <1>9, <1>10 DEF IInv

-----------------------------------------------------------------------------
LEMMA EndsIInv == IInv /\ (Crash \/ Stop) => IInv'
<1> SUFFICES ASSUME IInv, Crash \/ Stop PROVE IInv'
  OBVIOUS
<1>1. /\ offered' = offered /\ console' = console /\ copies' = copies /\ blind' = blind
      /\ todo' = [u \in Threads |-> {}] /\ pc' = [u \in Threads |-> "done"]
      /\ args' = [u \in Threads |-> DefaultPolicy] /\ snapshot' = DefaultPolicy
      /\ boot' = boot /\ up' = FALSE /\ stopped' \in BOOLEAN
      /\ UNCHANGED <<served, kernel>>
  BY DEF Crash, Stop, Ends, served, kernel, IInv, TypeOK
<1>2. TypeOK'
  <2>1. DefaultPolicy \in Policy /\ DefaultPolicy \in Mixed
    BY MixedType DEF Policy
  <2>2. args' \in [Threads -> Mixed] /\ todo' \in [Threads -> SUBSET Step]
    BY <1>1, <2>1
  <2> QED
    BY <1>1, <2>1, <2>2 DEF IInv, TypeOK, served, kernel
<1>3. Idle' /\ Arguments' /\ Plans'
  BY <1>1 DEF IInv, Idle, Arguments, Plans, Fetched, Threads
<1>4. RulesHaveGrounds'
  BY <1>1 DEF IInv, RulesHaveGrounds
<1>5. Budget'
  <2> SUFFICES ASSUME NEW c \in Chains, NEW r \in Rules
               PROVE  copies[c][r] + Owed("main", c, r)' + Owed("loop", c, r)' <= 2 + blind
    BY <1>1 DEF Budget
  <2>1. Owed("main", c, r)' = 0 /\ Owed("loop", c, r)' = 0
    BY <1>1 DEF Owed, Threads
  <2>2. /\ copies[c][r] + Owed("main", c, r) + Owed("loop", c, r) <= 2 + blind
        /\ copies[c][r] \in Nat /\ blind \in Nat
    BY BlockRulesAssumption DEF BlockRulesAssumption, IInv, TypeOK, Budget
  <2>3. Owed("main", c, r) \in {0, 1} /\ Owed("loop", c, r) \in {0, 1}
    BY DEF Owed
  <2> QED
    BY <2>1, <2>2, <2>3
<1> QED
  BY <1>2, <1>3, <1>4, <1>5 DEF IInv

LEMMA RestartIInv == IInv /\ Restart => IInv'
<1> SUFFICES ASSUME IInv, Restart PROVE IInv'
  OBVIOUS
<1>1. /\ UNCHANGED <<served, kernel, snapshot, args, todo>> /\ up' = TRUE
      /\ boot' = boot + 1 /\ boot < MaxBoots /\ stopped' = FALSE
      /\ pc' = [t \in Threads |-> IF t = "main" THEN "fetch" ELSE "sleep"]
  BY DEF Restart
<1>2. \A t \in Threads : pc'[t] \in {"fetch", "sleep"}
  BY <1>1
<1>3. TypeOK'
  <2>1. boot' \in 1..MaxBoots
    BY <1>1, BlockRulesAssumption DEF BlockRulesAssumption, IInv, TypeOK
  <2> QED
    BY <1>1, <2>1 DEF IInv, TypeOK, served, kernel
<1>4. Arguments'
  BY <1>1, <1>2 DEF IInv, Arguments, Fetched, served, Threads
<1>5. \A t \in Threads : todo'[t] = {}
  BY <1>1 DEF Restart, IInv, Idle
<1>6. RulesHaveGrounds' /\ Budget' /\ Plans' /\ Idle'
  BY <1>1, <1>5, RulesKept DEF Plans, Idle, served
<1> QED
  BY <1>3, <1>4, <1>6 DEF IInv

LEMMA StutterIInv == IInv /\ UNCHANGED vars => IInv'
<1> SUFFICES ASSUME IInv, UNCHANGED vars PROVE IInv'
  OBVIOUS
<1>1. /\ UNCHANGED <<served, kernel, process, snapshot, threads>>
      /\ offered' = offered /\ todo' = todo /\ up' = up /\ boot' = boot
      /\ stopped' = stopped
  BY DEF vars, served, threads, process
<1>2. TypeOK'
  BY <1>1 DEF IInv, TypeOK, served, kernel, threads
<1>3. Arguments'
  <2>1. \A t \in Threads : Mixture(args[t])' <=> Mixture(args[t])
    BY <1>1 DEF Mixture, threads
  <2> QED
    BY <1>1, <2>1 DEF IInv, Arguments, served, threads
<1>4. RulesHaveGrounds' /\ Budget' /\ Plans' /\ Idle'
  BY <1>1, RulesKept DEF IInv, Plans, Idle, threads
<1> QED
  BY <1>2, <1>3, <1>4 DEF IInv

-----------------------------------------------------------------------------
(* IInv holds in every state of every behaviour (collector.py:173-200,     *)
(* 326-345, 398-407).                                                      *)
THEOREM Invariance == Spec => []IInv
<1>1. IInv /\ [Next]_vars => IInv'
  <2> SUFFICES ASSUME IInv, [Next]_vars PROVE IInv'
    OBVIOUS
  <2>1. CASE \E p \in Policies : Publish(p)
    BY <2>1, PublishIInv
  <2>2. ASSUME NEW t \in Threads, Thread(t) PROVE IInv'
    <3>1. CASE Fetch(t) \/ FetchFails(t) \/ Install(t) \/ SyncEnds(t)
      BY <3>1, FetchingIInv
    <3>2. CASE List(t) \/ ListFails(t)
      BY <3>2, ListIInv
    <3>3. CASE \E s \in todo[t] : Command(t, s) \/ CommandFails(t, s)
      BY <3>3, CommandIInv
    <3> QED
      BY <2>2, <3>1, <3>2, <3>3 DEF Thread
  <2>3. CASE Main
    BY <2>2, <2>3, FetchingIInv DEF Main, Threads
  <2>4. CASE Loop
    BY <2>2, <2>4, FetchingIInv DEF Loop, Threads
  <2>5. CASE Crash \/ Stop \/ Restart \/ UNCHANGED vars
    BY <2>5, EndsIInv, RestartIInv, StutterIInv
  <2> QED
    BY <2>1, <2>3, <2>4, <2>5 DEF Next
<1> QED
  BY <1>1, InitIInv, PTL DEF Spec

(* Types, whatever the policies and however many the failures. *)
THEOREM TypeCorrect == Spec => []TypeOK
<1>1. IInv => TypeOK
  BY DEF IInv
<1> QED
  BY <1>1, Invariance, PTL

(* No interleaving of the two syncs, failure, crash or change of policy    *)
(* puts in a rule without grounds (collector.py:176-182, 403-407).         *)
THEOREM RulesGrounded == Spec => []RulesHaveGrounds
<1>1. IInv => RulesHaveGrounds
  BY DEF IInv
<1> QED
  BY <1>1, Invariance, PTL

(* A chain has two copies of a rule and one more for each failed listing,  *)
(* at most, through any number of restarts (collector.py:149-169, 184-198).*)
THEOREM RulesBounded == Spec => []CopiesBounded
<1>1. IInv => CopiesBounded
  <2> SUFFICES ASSUME IInv, NEW c \in Chains, NEW r \in Rules
               PROVE  copies[c][r] <= 2 + blind
    BY DEF CopiesBounded
  <2>1. /\ copies[c][r] + Owed("main", c, r) + Owed("loop", c, r) <= 2 + blind
        /\ copies[c][r] \in Nat /\ blind \in Nat
    BY BlockRulesAssumption DEF BlockRulesAssumption, IInv, TypeOK, Budget
  <2>2. Owed("main", c, r) \in {0, 1} /\ Owed("loop", c, r) \in {0, 1}
    BY DEF Owed
  <2> QED
    BY <2>1, <2>2
<1> QED
  BY <1>1, Invariance, PTL
=============================================================================
