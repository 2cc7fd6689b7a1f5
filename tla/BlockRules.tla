----------------------------- MODULE BlockRules -----------------------------
(***************************************************************************)
(* dns-collector/collector.py: how the policy of the Console becomes       *)
(* iptables rules.  Two threads fetch the policy and run sync_block_rules: *)
(* main once at start, policy_loop every 10 seconds.  A sync lists the     *)
(* rules of both chains at once and then runs one iptables command after   *)
(* the other; nothing keeps the two syncs apart, a command or the listing  *)
(* may fail, and the rules outlive the process.                            *)
(***************************************************************************)
EXTENDS Naturals

CONSTANTS
  Known,      \* KNOWN_DOMAINS
  Place,      \* kind -> domain -> where its pattern stands when they are sorted
  Policies,   \* what the Console says: [mode, enabled, authorized], the
              \* last being the known domains that is_authorized accepts
  MaxPublish, \* bound: changes an administrator makes on the Console
  MaxFaults,  \* bound: commands and listings that fail
  MaxBoots    \* bound: starts of the process

Kinds == {"dns", "sni"}

ASSUME BlockRulesAssumption ==
  /\ Place \in [Kinds -> [Known -> Nat]]
  /\ \A p \in Policies :
       /\ p = [mode |-> p.mode, enabled |-> p.enabled, authorized |-> p.authorized]
       /\ p.enabled \in BOOLEAN /\ p.authorized \subseteq Known
  /\ MaxPublish \in Nat /\ MaxFaults \in Nat /\ MaxBoots \in Nat \ {0}

VARIABLES
  console, changes, \* policy the Console serves; changes made so far
  offered,  \* history: policies the Console has served
  copies,   \* chain -> rule -> how many such rules the chain has
  faults, blind, \* history: failures so far, and how many were listings
  boot, up, stopped, \* number of the process; it runs; it was ended by a signal
  snapshot, \* DnsCapture.policy_*
  pc, args, \* thread -> where it is; the arguments of its sync
  todo      \* thread -> steps of its sync to be run

served == <<console, changes, offered>>
kernel == <<copies, faults, blind>>
process == <<boot, up, stopped>>
threads == <<pc, args, todo>>
vars == <<served, kernel, process, snapshot, threads>>

Threads == {"main", "loop"}
Chains == {"OUTPUT", "FORWARD"}
Rules == Kinds \X Known
DefaultPolicy == [mode |-> "monitoring", enabled |-> TRUE, authorized |-> {}]

-----------------------------------------------------------------------------
(* A step of sync_block_rules is one iptables command; it stands in the    *)
(* code before those it Precedes.                                          *)
Step == [kind : Kinds, op : {"insert", "delete"}, domain : Known, chain : Chains]
RuleOf(s) == <<s.kind, s.domain>>

Position(s) == <<IF s.kind = "dns" THEN 0 ELSE 1, IF s.op = "insert" THEN 0 ELSE 1,
                 Place[s.kind][s.domain], IF s.chain = "OUTPUT" THEN 0 ELSE 1>>
Precedes(s, u) ==
  \E i \in 1..4 : /\ Position(s)[i] < Position(u)[i]
                 /\ \A j \in 1..(i - 1) : Position(s)[j] = Position(u)[j]

(* Fault: the mode is not looked at. *)
ExpectedAnyMode(p) == IF p.enabled THEN {r \in Rules : r[2] \notin p.authorized} ELSE {}

(* The rules a policy asks for. *)
Expected(p) ==
  IF p.enabled /\ p.mode = "enforcement"
  THEN {r \in Rules : r[2] \notin p.authorized} ELSE {}

(* Fault: the listing recognises the rules of one kind only. *)
ListedDns == {r \in Rules : r[1] = "dns" /\ \E c \in Chains : copies[c][r] > 0}

(* list_block_rules: the rules found in any chain. *)
Listed == {r \in Rules : \E c \in Chains : copies[c][r] > 0}

(* Fault: rules no longer asked for are left alone. *)
StepsInsertOnly(exp, act) ==
  {s \in Step : s.op = "insert" /\ RuleOf(s) \in exp \ act}

Steps(exp, act) ==
  {s \in Step : RuleOf(s) \in (IF s.op = "insert" THEN exp \ act ELSE act \ exp)}

Init ==
  /\ console \in Policies /\ changes = 0 /\ offered = {console}
  /\ copies = [c \in Chains |-> [r \in Rules |-> 0]] /\ faults = 0 /\ blind = 0
  /\ boot = 1 /\ up = TRUE /\ stopped = FALSE
  /\ snapshot = DefaultPolicy
  /\ pc = [t \in Threads |-> IF t = "main" THEN "fetch" ELSE "sleep"]
  /\ args = [t \in Threads |-> DefaultPolicy]
  /\ todo = [t \in Threads |-> {}]

-----------------------------------------------------------------------------
(* Console (outside the repository).                                       *)
Publish(p) ==
  /\ changes < MaxPublish /\ p # console
  /\ console' = p /\ changes' = changes + 1 /\ offered' = offered \cup {p}
  /\ UNCHANGED <<kernel, process, snapshot, threads>>

(* main and policy_loop up to the sync.                                    *)

Goto(t, l) == pc' = [pc EXCEPT ![t] = l]
Rest(t) == IF t = "main" THEN "done" ELSE "sleep"

(* The 10 seconds of policy_loop are over. *)
Wake ==
  /\ up /\ pc["loop"] = "sleep" /\ Goto("loop", "fetch")
  /\ UNCHANGED <<served, kernel, process, snapshot, args, todo>>

Fetch(t) ==
  /\ up /\ pc[t] = "fetch" /\ Goto(t, "install")
  /\ args' = [args EXCEPT ![t] = console]
  /\ UNCHANGED <<served, kernel, process, snapshot, todo>>

(* No answer, another status than 200, or no data in it. *)
FetchFails(t) ==
  /\ up /\ pc[t] = "fetch" /\ Goto(t, Rest(t))
  /\ UNCHANGED <<served, kernel, process, snapshot, args, todo>>

(* The loop syncs with what it fetched; main goes back to the snapshot for *)
(* mode and authorized domains.                                            *)
AfterInstall(t) == IF t = "main" THEN "mode" ELSE "list"

(* Fault: an answer that authorizes nothing leaves the old list in force.  *)
InstallKeepsAuthorized(t) ==
  /\ up /\ pc[t] = "install"
  /\ snapshot' = [args[t] EXCEPT !.authorized =
                    IF @ = {} THEN snapshot.authorized ELSE @]
  /\ Goto(t, AfterInstall(t))
  /\ UNCHANGED <<served, kernel, process, args, todo>>

(* The lock section. *)
Install(t) ==
  /\ up /\ pc[t] = "install"
  /\ snapshot' = args[t]
  /\ Goto(t, AfterInstall(t))
  /\ UNCHANGED <<served, kernel, process, args, todo>>

ReadMode ==
  /\ up /\ pc["main"] = "mode" /\ Goto("main", "authorized")
  /\ args' = [args EXCEPT !["main"].mode = snapshot.mode]
  /\ UNCHANGED <<served, kernel, process, snapshot, todo>>

ReadAuthorized ==
  /\ up /\ pc["main"] = "authorized" /\ Goto("main", "list")
  /\ args' = [args EXCEPT !["main"].authorized = snapshot.authorized]
  /\ UNCHANGED <<served, kernel, process, snapshot, todo>>

-----------------------------------------------------------------------------
(* sync_block_rules.                                                       *)

(* iptables -S fails for want of the xtables lock, or times out: then no   *)
(* rule is taken to exist.                                                 *)
ListFails(t) ==
  /\ up /\ pc[t] = "list" /\ faults < MaxFaults
  /\ faults' = faults + 1 /\ blind' = blind + 1
  /\ todo' = [todo EXCEPT ![t] = Steps(Expected(args[t]), {})]
  /\ Goto(t, "run")
  /\ UNCHANGED <<served, copies, process, snapshot, args>>

List(t) ==
  /\ up /\ pc[t] = "list"
  /\ todo' = [todo EXCEPT ![t] = Steps(Expected(args[t]), Listed)]
  /\ Goto(t, "run")
  /\ UNCHANGED <<served, kernel, process, snapshot, args>>

(* The next step of a sync; whatever comes of it, the sync goes on. *)
NextStep(t, s) ==
  /\ up /\ pc[t] = "run" /\ s \in todo[t] /\ \A u \in todo[t] : ~Precedes(u, s)
  /\ todo' = [todo EXCEPT ![t] = @ \ {s}]
  /\ UNCHANGED <<served, process, snapshot, pc, args>>

(* -I puts in one more rule, -D takes one out if there is one. *)
Command(t, s) ==
  /\ NextStep(t, s)
  /\ copies' = [copies EXCEPT ![s.chain][RuleOf(s)] =
                  IF s.op = "insert" THEN @ + 1 ELSE IF @ > 0 THEN @ - 1 ELSE 0]
  /\ UNCHANGED <<faults, blind>>

CommandFails(t, s) ==
  /\ NextStep(t, s) /\ faults < MaxFaults
  /\ faults' = faults + 1
  /\ UNCHANGED <<copies, blind>>

SyncEnds(t) ==
  /\ up /\ pc[t] = "run" /\ todo[t] = {} /\ Goto(t, Rest(t))
  /\ UNCHANGED <<served, kernel, process, snapshot, args, todo>>

-----------------------------------------------------------------------------
(* The process ends between any two steps of its threads; the rules stay.  *)
Ends ==
  /\ up /\ up' = FALSE /\ snapshot' = DefaultPolicy
  /\ pc' = [t \in Threads |-> "done"]
  /\ args' = [t \in Threads |-> DefaultPolicy] /\ todo' = [t \in Threads |-> {}]
  /\ UNCHANGED <<served, kernel, boot>>

(* A failure.  The last process of a behaviour has none. *)
Crash == Ends /\ boot < MaxBoots /\ UNCHANGED stopped

(* SIGTERM or SIGINT, and the exit with status 0 that follows when the     *)
(* loop of run ends.  What the threads still do after the signal, they do  *)
(* before this step.  Nothing takes the rules away.                        *)
Stop == Ends /\ stopped' = TRUE

(* systemd starts the service again after a failure (Restart=on-failure),  *)
(* an operator may start it after a stop.                                  *)
Restart ==
  /\ ~up /\ boot < MaxBoots
  /\ up' = TRUE /\ boot' = boot + 1 /\ stopped' = FALSE
  /\ pc' = [t \in Threads |-> IF t = "main" THEN "fetch" ELSE "sleep"]
  /\ UNCHANGED <<served, kernel, snapshot, args, todo>>

Thread(t) ==
  \/ Fetch(t) \/ FetchFails(t) \/ Install(t)
  \/ List(t) \/ ListFails(t)
  \/ \E s \in todo[t] : Command(t, s) \/ CommandFails(t, s)
  \/ SyncEnds(t)

Main == ReadMode \/ ReadAuthorized \/ Thread("main")
Loop == Wake \/ Thread("loop")

Next ==
  \/ \E p \in Policies : Publish(p)
  \/ Main \/ Loop \/ Crash \/ Stop \/ Restart

Spec == Init /\ [][Next]_vars

(* Both threads run and every request and command ends within its timeout; *)
(* systemd starts a failed service again, nobody has to start a stopped    *)
(* one; the Console answers every so often.                                *)
Fairness ==
  /\ WF_vars(Main) /\ WF_vars(Loop) /\ SF_vars(Fetch("loop"))
  /\ WF_vars(~stopped /\ Restart)
FairSpec == Spec /\ Fairness

-----------------------------------------------------------------------------
Policy == Policies \cup {DefaultPolicy}
Mixed == [mode : {p.mode : p \in Policy}, enabled : BOOLEAN, authorized : SUBSET Known]

(* Type invariant. *)
TypeOK ==
  /\ console \in Policies /\ changes \in 0..MaxPublish /\ offered \subseteq Policies
  /\ copies \in [Chains -> [Rules -> Nat]]
  /\ faults \in 0..MaxFaults /\ blind \in 0..faults
  /\ boot \in 1..MaxBoots /\ up \in BOOLEAN /\ stopped \in BOOLEAN
  /\ snapshot \in Policy
  /\ pc \in [Threads -> {"sleep", "fetch", "install", "mode", "authorized", "list",
                         "run", "done"}]
  /\ args \in [Threads -> Mixed]
  /\ todo \in [Threads -> SUBSET Step]

(* A rule drops a domain only if policies the Console served had the       *)
(* control enabled, ordered enforcement and did not authorize the domain - *)
(* policies, as main's arguments may come from two (collector.py:403-407). *)
RulesHaveGrounds ==
  \A c \in Chains, r \in Rules : copies[c][r] > 0 =>
    /\ \E p \in offered : p.enabled
    /\ \E p \in offered : p.mode = "enforcement"
    /\ \E p \in offered : r[2] \notin p.authorized

(* Rules do not pile up, however often the process starts: each of the two *)
(* threads can add a copy to a chain that had none when it was listed, and *)
(* otherwise only a failed listing adds one (collector.py:167, 182).       *)
CopiesBounded ==
  \A c \in Chains, r \in Rules : copies[c][r] <= 2 + blind

(* When the Console is left alone, the rules settle: every rule it asks    *)
(* for is in a chain, and none it does not ask for is in any, whatever     *)
(* failed, crashed or overlapped before - unless the service was stopped   *)
(* and stays so: then the rules stay as they were (collector.py:180-199,   *)
(* 274-275, 326-345).                                                      *)
RulesSettle ==
  <>[]stopped \/ <>[](Listed = Expected(console))

(* collector.py:11, 18 and 175: in enforcement mode the unauthorized       *)
(* domains are dropped, by rules in OUTPUT and FORWARD, while the service  *)
(* runs.                                                                   *)
RulesComplete ==
  \/ <>[]stopped
  \/ <>[](\A c \in Chains : \A r \in Expected(console) : copies[c][r] > 0)
=============================================================================
