# TLA+ specifications of asg-deploy

asg-deploy delivers the ASG gateway. Most of the repository configures software of
others (Higress, Redis, cert-manager) or builds images. Its own programs are

* `src/bypass-guard`, a Go data plane. It reads mirrored traffic, recognises requests
  to AI services, reports them to the Console and forges RSTs and DNS replies against
  those that policy blocks;
* `src/dns-collector`, a Python collector. It watches DNS queries, counts and reports
  those for AI domains, and keeps iptables rules that drop what policy blocks;
* the shell scripts in `src/offline` and `src/scripts` that install and upgrade them.

Both programs poll the same Console for a policy and post their findings to it. Neither
persists anything; iptables rules are the one thing that outlives a process.

This directory holds TLA+ specifications of the two programs, instances for TLC, and
proofs for TLAPS. `PROJECT.json` maps each definition to the lines it models.

## 1. Inventory

| component | state | operations | talks to | what makes it hard | what makes it correct |
|---|---|---|---|---|---|
| event upload, `report.go` | channel of 4096, batch, request in flight, suppression map | `Report`, `dedupHit`, `sendLoop` (receive, tick, done), `postBatch`, `Close` | called by the engine; posts to the Console | two goroutines, client timeout against a late store, shutdown without a join, crash, map cleanup inside the window | no event duplicated, misplaced or stuck; an acknowledgement is true; suppression lasts the window |
| policy and verdict, `policy.go`, `engine.go`, `config.go`, `classify.go` | mode, blacklist, authorized list, categories, each under its own lock | `sync` (`fetchMode`, `setMode`, `fetchPolicy`, three setters), `handleEvent` (`ClassifyFull`, `IsBlocked`, `currentMode`) | polls the Console; its verdict decides what is reported and reset | an event is judged between two pieces of an update; failed and partial answers | a block has grounds; the local list is a floor; a verdict is that of a policy; convergence |
| session table and RST, `session.go`, `capture.go`, `engine.go`, `block.go` | 4-tuple -> positions, Blocked, RstCount, lastSeen | `GetOrCreate`, `UpdateSeq`, `recheckBlocked`, `block`, `SendRST`, `Cleanup` | one goroutine, packets from the wire | packets lost, repeated, reordered; wrap of sequence numbers; cleanup in a conversation; reused capture memory | bounded sweeps, none without cause, each aimed anew; a blocked connection is reset |
| protocol parsing, `parse.go`, `capture.go`, `session.go` | header gathered per session, settings | `handlePacket`, `AppendPayload`, `parseTCPPayload`, TLS, HTTP and DNS parsers | feeds `handleEvent` | headers divided over packets, gathered in the order of capture, parsed again and again; a parser that succeeds on cut off input | the name the client asked for, however its header is divided, and no other |
| fingerprints, `ja3.go` | none | `parseClientHello`, `JA3`, `JA4` | reported with the event | GREASE values and order of extensions vary with each hello | one fingerprint for one software |
| DNS poisoning, `block.go` | none | `buildDNSResponse`, `SendDNSPoison` | the injection socket | its answers may be captured again | the client takes the answer, and none is sent to an answer |
| bypass-guard lifecycle, `main.go`, unit file | - | start, signal, exit, restart | all of the above | exit does not wait for goroutines | see the event upload |
| DNS capture and report, `collector.py` | counters, window, buffer of failed posts, policy snapshot | `_process_line`, `report_loop`, install of a policy, `stop` | tshark, the Console, Prometheus | two threads on one window; a retry after a store; a limited buffer | no query lost or counted in two events, at least once delivery |
| iptables synchronisation, `collector.py` | chains of the kernel, policy snapshot | `policy_loop`, first sync in `main`, `sync_block_rules`, `list_block_rules`, `run_iptables` | the Console, the kernel | two threads without a lock, one command failing out of many, a crash or a stop with half the commands run | rules have grounds, do not pile up, settle |
| offline installation and upgrade, `install.sh`, `upgrade.sh` | registry, cluster, binary and its backup | numbered steps | kind, helm, kubectl, systemd | a step that fails, a rerun after it | a failed upgrade can be taken back |
| build scripts, charts, manifests | - | - | - | - | - |

The places where this code is hard to test are the `hazards` of `PROJECT.json`, each at
its line with the properties that watch it.

## 2. Modules

| module | models | instance | proofs |
|---|---|---|---|
| `Reporter` | the event upload, with death and restart of the process | `MCReporter` | `ReporterProofs` |
| `LossyUpload` | abstract: an event is offered once, then refused, stored or lost | through `Reporter` | refinement in `ReporterProofs` |
| `PolicySync` | polls and events at the grain of the lock sections | `MCPolicySync` | `PolicySyncProofs` |
| `TcpReset` | sessions and sweeps under arbitrary packets | `MCTcpReset` | `TcpResetProofs` |
| `ResetRace` | `TcpReset` composed with the two endpoints, the line and the program's own frames | `MCResetRace` | `ResetRaceProofs` |
| `ClientHello` | operators: ClientHello to JA3 and JA4 | through `Capture` | lemmas in `ParseProofs` |
| `DnsPoison` | operators: DNS query to forged answer | through `Capture` | `ParseProofs` |
| `Subsequence` | operators: what a loop keeps of a list, by its positions | through `ClientHello`, `DnsPoison` | - |
| `Capture` | from a packet to the event and what becomes of it | `MCCapture` | `CaptureProofs` |
| `DnsReport` | window, buffer and posts of the collector | `MCDnsReport` | `DnsReportProofs` |
| `BlockRules` | two syncs of iptables over two chains | `MCBlockRules` | `BlockRulesProofs` |

Conventions. An action is one atomic step of the code: a lock section, a channel
operation, one external command, or, where everything runs in one goroutine, one round
of its loop. Variables marked *history* only record. Operators named after a fault
(their comment begins with "Fault:") are wrong variants of the definition after them; no
action uses them, they serve to see a property fail. The Console, the network and the
clock are not in the repository: their actions do whatever the code has to expect.

### Reporter
`Report` is the capture goroutine's call: `DedupHit` and `Remember` are `dedupHit`,
`Enqueue` the `select` with its `default`. `Receive`, `Tick` and `Done` are the three
cases of `sendLoop`, `Flush` its closure; while `pc` is `posting` or `closing`, the
goroutine waits in `postBatch`, which ends by `PostOk` or `PostErr`. A request on `wire`
may be stored before or after its sender gave up, or be lost. `Die` is the end of `main`,
which does not wait for `sendLoop`, or a crash; `Restart` is systemd after a failure
(`Restart=on-failure`) or an operator after a stop, and no property counts on it. An event is its
position in `log`; its contents are reduced to key and status.

### PolicySync
`ppc` walks through `sync`, `cpc` through `handleEvent`. `gotMode` and `gotPolicy` are
the manager's local variables, `ev` the capture goroutine's. `Parsed` reduces the three
forms of the Console's answer to what `fetchPolicy` returns. Names are spelled in several
ways and related by `Norm` (normalizeDomain) and `Supers` (parent domains), so the model
keeps that authorized names are normalised, and skipped if nothing is left (`NormSet`),
while blacklisted ones are taken as they are. The categories are rules, each the set of
the domains it lists: an answer without rules leaves the library as it is, one whose
rules list no domain replaces it by a library that matches nothing. `installed` is a
history of the policies that `sync` has installed to the end.

### TcpReset
`HandlePacket` is one round of the capture loop for one TCP packet: session lookup,
`UpdateSeq`, `RecheckBlocked`, `Block` if the packet completes a request that is to be
blocked, then the cleanup if its ticker has fired. Sequence numbers are modulo `W` and
`Ahead` is the comparison by signed difference. `ips` and `reads` follow the capture
ring's memory, of which a session keeps slices.

### ResetRace
EXTENDS `TcpReset`: `Handle` is `HandlePacket` on the next captured packet, with the
verdict (the client's data is a request to be blocked), `seqs` (ClientSeq, ServerSeq)
and `LearnMac` added. `Inject` is `SendRST`: one burst for each end, around the position
the session holds for it (`RstSeqSet`). A burst joins the line by `Launch`, later than it
was written, and a packet passes the mirror when it is sent, so either may be overtaken.
An endpoint takes a RST only at the position it expects (RFC 5961) and answers one ahead
of it with an acknowledgement. `echo` stands for the choice of main.go:48-51: without a
control interface the frames go out where packets are captured, and the program handles
its own RSTs. While the server's MAC is unknown its burst goes to the client's MAC, and
may or may not get through; once the program has learned its own MAC it does not.

### ClientHello, DnsPoison
Pure operators. A hello is a sequence of fields, the pieces a packet boundary can
separate; `ParseClientHello` reads as far as the extensions go or the bytes end, and
succeeds on hellos cut off there, as the code does. Hashes are the values hashed; a sorted
list is a bag. A DNS label is given by the pieces between the dots in it, so that it
matters that `encodeQName` splits what `extractQName` joined.

### Capture
One stream of one client is followed packet by packet, and one handled packet is one
action: session lookup, `AppendPayload`, recognition in the packet, then in what was
gathered (`Recognise`), port policy and protocol switch (`Admitted`), excluded sources and
the gate of reports. Payloads are sequences of positions in the stream, so that a packet
lost, repeated or early leaves a gap or a repeat in the header gathered. Bytes of a TLS
hello behind a gap may be taken for any field: `Misread` leaves the outcome open. UDP
packets come in between. What the policy blocks (`Blocked`) and normalizeDomain (`Norm`)
are constants; policies that change are `PolicySync`'s. What clients may send is assumed by
name: `StreamsAssumption` says that a stream is keep-alive HTTP whose first request has a Host
line, and whose Host lines are the names asked for (`HttpStream`), or a TLS hello whose
lengths are true and which names one server (`TlsStream`), and `DatagramsAssumption` that a label on the wire is not empty.

### DnsReport
`Decide` and `Count` are the two lock sections of `_process_line`; `Take` is the lock
section of `report_loop`, `PostOk` and `PostErr` the outcomes of `http_json`. An event
carries the set of queries it counts, which the program keeps as a number. `Die`
loses window and buffer but not the requests under way; `Restart` is systemd or an
operator, as in `Reporter`.

### BlockRules
Each thread fetches a policy, installs it, lists the rules and runs the commands of
`Steps` in the order of the code (`Precedes`), one action each. `Listed` merges the
chains as `list_block_rules` does. A listing that fails is an empty one, and a command
that fails is passed over. Main's sync reads mode and authorized domains back from the
snapshot (collector.py:407), the loop's does not. A rule is a kind and a domain. The
process ends between any two steps and leaves the rules where they are: by a `Crash`,
after which systemd starts it again (`Restart=on-failure`), or by a `Stop`: SIGTERM ends the
loop of `run`, the exit is clean, and only an operator may start it again.

## 3. Runs

Every passing run is exhaustive within its bounds. The runs that end with a violation
show where the code does not do what a comment or docstring of it says.

| run | question | bounds, and what they let happen |
|---|---|---|
| `reporter` | is an event ever stored twice, misplaced, stuck, falsely acknowledged? does the upload implement `LossyUpload`? | 3 events, 2 keys, channel of 1, batch of 2, map limit 1, 2 ticks, 2 processes: full channel, full and partial batches, cleanup of the map, late store, shutdown, restart |
| `policy_sync` | on what may a verdict rest in the middle of an update, and does the policy converge? | 6 policies of all answer forms over 6 names, 2 changes on the Console: two updates overlap one event |
| `tcp_reset` | are sweeps bounded, deserved and new? | 2 connections (one with equal ports), 4 segments modulo 8 around the wrap, limit of 3 sweeps |
| `reset_race` | what can a connection to be blocked escape by, and what makes a sweep miss? | positions modulo 16 around the wrap, offsets 0 and 1, payloads of 2 from the client and of 1 or 3 (past the offsets) from the server; 2 + 1 packets with payload, with echo 1 + 1; 3 sweeps |
| `capture` | which names and fingerprints are reported of a client, and what is forged? | 3 streams (keep-alive HTTP with two requests, two hellos of one software) of 10 to 14 fields, divided into packets in every way; 1 fault (a packet lost, repeated, early, late, or a cleanup); buffer of 13 fields; 2 configurations; 7 DNS packets |
| `dns_report` | is a query lost or in two events? which ones does the limit cut? | 3 queries, 2 domains, buffer of 1, a policy change, 2 processes |
| `block_rules` | what can two overlapping syncs, failures, crashes, stops and restarts do to the chains? | 1 domain (4 rules in the chains), 4 policies, a change, a failure, 2 processes |
| `reporter_audit` | violation of `BlockedEventsRecorded` | as `reporter` |
| `policy_torn` | violation of `VerdictOfOnePolicy` | as `policy_sync` |
| `reset_spent` | violation of `ConnectionReset` | as `reset_race` |
| `reset_addresses` | violation of `SweepsAddressed` | as `tcp_reset`, ring of 3 packets |
| `block_rules_gap` | violation of `RulesComplete` | a failure, one process |

Deadlock is checked where the program runs for ever (`policy_sync`, `policy_torn`,
`tcp_reset`, `reset_addresses` and `capture`). `Reporter`, `DnsReport` and `BlockRules` may stop: the process
may be dead for good, or the bounds on events, time and restarts are used up. `ResetRace`
stops when both endpoints have said all they have to say and it has been handled.

Why the bounds are enough: every limit (channel, batch, map, buffer, sweeps, ring) can be
reached and passed, every pair of threads can meet in every pair of places, and a process
can be followed by another while requests or rules of the first remain. For the safety
properties, all of which are theorems (section 6), the proofs remove the bounds. In
`capture`, streams of 10 to 14 fields have every kind of field the parsers tell apart, and
the buffer just holds the longest header; in `reset_race`, one fewer packet with echo than without keeps the run short, and one is
enough there to see all three sweeps taken. In `BlockRules`, rules of different domains touch
disjoint copies, and one domain has all four combinations of kind and chain; a second
failure or change only starts another sync of the same shape.

### Properties in words
* `Reporter`: live events are exactly those in channel, batch and request, in order
  (`Conservation`); at most one store per event (`StoredAtMostOnce`); no false
  acknowledgement (`AckedWasStored`); events of a key that pass are a window apart
  (`DedupWindowRespected`), and an event is suppressed only after one that passed, in the
  same process and window (`SuppressionHasCause`); `FlushedOnStop`;
  `EventsLeave`; `ImplementsUpload`.
* `PolicySync`: the local list always blocks (`LocalFloor`); a block can be traced to
  received policies (`BlocksAreGrounded`); a domain that all of them list, or that the
  categories of all that have any match while none authorizes it, stays blocked once one
  that blocks it so has been installed to the end (`ShadowStaysBlocked`; from the one way
  to the other it may slip through, and `VerdictOfOnePolicy` fails); packets are forged by
  order only (`EnforcementIsOrdered`); `Converges`.
* `TcpReset`: `SweepBudget`, `OnlyGuiltySwept`, `OneSessionPerConnection`, `SweepsMove`,
  `ActiveSessionsKept`.
* `ResetRace`: a connection to be blocked is reset, unless the server has answered and all
  three sweeps were taken (`OnlyAnswersDefeat`); that it is always reset (`ConnectionReset`)
  fails. A sweep that nothing races against is aimed at the positions both ends expect
  (`QuietSweepsHit`), so only the race, a crossing acknowledgement or a captured forgery
  makes it miss; `RaceTypeOK`.
* `Capture`: the first request of a stream is found however its header is divided
  (`RequestsFound`); no other name is reported than those asked for, while packets are
  captured once each and in order (`DomainsAsked`); what was gathered has one name
  (`OneHeaderPerSession`); two hellos of one software get one JA4
  (`ClientRecognised`); a forged answer fits the query, and answers get none
  (`ForgedIsAcceptable`).
* `DnsReport`: unsettled queries are in exactly one of window, post and buffer
  (`QueriesConserved`); the counters agree with what was seen (`CountersAgree`); repeats
  are whole events (`EventsDisjoint`); the limit cuts what was reported
  last (`BacklogKeepsOldest`); what a running process counts arrives or is cut
  (`QueriesArrive`).
* `BlockRules`: a rule is justified by policies the Console served (`RulesHaveGrounds`);
  a chain has at most two copies of a rule, and one more for each failed listing
  (`CopiesBounded`); left alone, and unless the service is stopped for good, the chains hold
  the rules asked for and no other (`RulesSettle`), though not each in both chains
  (`RulesComplete` fails). After a stop the rules of the last sync stay in force.

## 4. Fairness

* `Reporter`: `sendLoop` is scheduled, its ticker fires, and the 8 second client timeout
  ends every post. The Console owes nothing; `EventsLeave` needs no answer.
* `PolicySync`: the ticker fires and requests end within 5 seconds (weak fairness of
  `Poll` and of `Sync`, whatever its outcome). `Converges` also needs that polls succeed
  every so often: strong fairness of `FetchMode` and `FetchPolicy`.
* `DnsReport`: the sleep ends and every post ends (weak); for `QueriesArrive` the Console
  stores a post every so often (strong, `ConsoleStores`).
* `BlockRules`: both threads run, `subprocess.run` and `urlopen` have timeouts (weak
  fairness of `Main` and `Loop`); systemd restarts a failed service (weak fairness of
  `Restart` after a `Crash`; none after a `Stop`, which exits with status 0);
  for `RulesSettle` a fetch of the loop succeeds every so often (strong). Failures and
  crashes are bounded by `MaxFaults` and `MaxBoots`: the property is about what happens
  after the last of them.
* `ResetRace`: while a packet is captured, a sweep is written, a packet is on the line or
  something is to be acknowledged, one of these is taken care of (weak fairness of
  `Progress`). No endpoint has to send data.
* `TcpReset` and `Capture` have safety properties only.

## 5. Findings

1. **Blocked events can be lost** (`reporter_audit`). `report.go:78` says blocked events
   are always recorded; they skip the suppression, but a full channel (line 103) or a
   failed post (lines 174-178) drops them like any other.
2. **A verdict of no policy** (`policy_torn`). Lists and categories are replaced in
   separate lock sections and read in two, so an event in between can get a verdict that
   neither policy gives. The run shows a gap: the old policy lists a domain, the new one has
   it in its categories, and between `SetBlacklist` and `SetDynamicCategories` it passes.
   In the other direction a domain is blocked that neither blocks. `BlocksAreGrounded` and
   `ShadowStaysBlocked` say what remains true.
3. **The sweeps are spent too early** (`reset_spent`). `engine.go:130-132` says that a blocked
   connection is swept again, up to three times, whenever its positions advance, which
   makes sure that it is reset. In the run two requests of the client, handled one after the
   other, take two sweeps at once, and an acknowledgement the server sent before it got the
   second moves ServerAck back (session.go:127, against what session.go:113-114 says of old
   segments) and takes the third, at a position passed long ago; the answer of the server
   overtakes them all. With one interface for both directions it needs less: the program
   captures the RSTs it has just forged, they move ClientAck and ServerAck as any packet
   does, the second and third sweep follow at once, and if the server has not spoken
   before, its MAC is learned from a forgery. `OnlyAnswersDefeat` says what remains true.
4. **RSTs to strangers** (`reset_addresses`). Sessions keep slices of captured packets
   whose memory the ring reuses.
5. **A missing rule stays missing** (`block_rules_gap`). One insertion fails; the rule in
   the other chain makes the listing look complete. The same gap opens without any
   failure, when one sync deletes what another has listed.

Disagreements with a comment that have no run of their own:

* **An error page ends enforcement.** `policy.go:15` says that the local configuration is kept
  while the Console is unreachable. `fetchMode` ignores the status of the answer, and any
  body that is not `enforcement` means monitoring (engine.go:67-69): the page of a proxy in
  front of the Console ends enforcement until the next good answer. It is the action
  `FetchModeErrorPage`, and `policy_sync` runs through it.
* **Fingerprints of their own kind.** `ja3.go:4-5` names the specifications of salesforce and
  FoxIO. `JA3` keeps GREASE values, so it changes from hello to hello, and `JA4` sorts the
  signature algorithms, which FoxIO's does not. `ClientRecognised` is about the program's
  JA4, with whatever else it computes the same way.

Observations that contradict no sentence we know of, but that the runs above bring out:

* **A cut off hello has a fingerprint.** parseClientHello succeeds when the extensions are
  cut off, so the first packet of a divided hello is reported, if the name was in it, with
  a partial fingerprint. The whole one follows with the next packet, but has the key
  of the first and is suppressed for the window unless it is blocked.
* **A divided second request** of a connection is reported under the name of the first one:
  the packet alone yields nothing, and what was gathered begins with the first request.
* The question of a forged answer is always of type A, whatever was asked; a resolver
  that asked for AAAA or HTTPS will not take it.
* A policy whose categories list no domain empties the library (policy.go:62 counts the
  rules), and a stopped collector leaves its rules in the chains.

## 6. Proofs

All theorems hold for every value of the constants allowed by the module's `ASSUME`.
Each rests on an inductive invariant, shown by one lemma per action, and carried to
`[]` by temporal logic.

* `ReporterProofs`. `Conservation` is not inductive: that a step keeps the order needs to
  know which of `batch` and `inflight` is empty at each `pc` (`Stages`), and
  `StoredAtMostOnce` that what is on the wire or stored has left batch and channel for
  good and that bodies on the wire do not overlap (`Outbound`). `DedupWindowRespected`
  needs that the map remembers each event let through or that its window is over
  (`Stamps`), which every cleanup keeps. `SuppressionHasCause` needs the converse, that each
  stamp is the time of an event let through by this process (`Causes`). Theorems:
  `TypeCorrect`, `EventsConserved`, `StoredOnce`, `AcksAreHonest`, `RepeatsAreApart`,
  `OnlyRepeatsSuppressed`, `StopFlushes`, and `Refinement`:
  `Spec => ImplementsUpload`, where a report is an offer, a store of a request a store of
  its set, a lost request or a death a loss, and all else a stutter.
* `PolicySyncProofs`. The invariant tells where each piece in force comes from
  (`Provenance`), what the match of the event at hand rests on although more policies have
  arrived since (`EventGrounds`), and who ordered the mode (`ModeOrders`).
  `ShadowStaysBlocked` needs both: that a policy installed to the end leaves categories no
  later one without rules removes, and that an event holds the policies installed when it was
  matched, so that the lists it meets later are at least as new. Theorems:
  `TypeCorrect`, `LocalBlacklistHolds`, `BlocksHaveGrounds`, `SameWayStaysBlocked`,
  `InjectionIsOrdered`. Matching is an arbitrary relation.
* `TcpResetProofs`. `Kept` ties counter, positions and history of one session together
  and is carried through `UpdateSeq`, `RecheckBlocked` and `Block` one by one. Theorems:
  `TypeCorrect`, `SweepsBounded`, `NoBystanderSwept`, `DirectionsShareSession`,
  `SweepsAreNew`, `ActiveSessionsStay`. The modulus is arbitrary.
* `BlockRulesProofs`. `RulesHaveGrounds` needs that arguments on their way to a sync are a
  policy served or, for main, put together from several (`Arguments`), and that planned
  insertions have grounds (`Plans`). `CopiesBounded` counts the copies together with the
  insertions each sync still owes (`Budget`): a listing that saw the rule plans none, so only
  two that saw none, or a blind one, can add. Theorems: `TypeCorrect`, `RulesGrounded`,
  `RulesBounded`.

* `DnsReportProofs`. What each of the two loops is doing says which of the three places may
  hold queries (`Stages`): events are under way only during a post, with the buffer taken
  empty. `QueriesConserved` is that picture plus `LiveHeld`, which finds each unsettled query
  in a place, and `Apart`, which keeps every query of the window, of the places behind it, of
  the posts given up and of the Console's store in one event. `BacklogKeepsOldest` is an
  action property; it needs that the buffer is ordered by time, newest first, over any number
  of failed posts (`Timed`). Theorems: `TypeCorrect`, `QueriesStay`, `MetricsAreExact`,
  `EventsShareNothing`, `OldestSurvive`.
* `ParseProofs`. What the operators of `ClientHello` and `DnsPoison` return: the first match
  of a search, the values of a kind of field, the server name of a hello, and
  `LabelsSurvive`: labels joined by dots and split at dots are the same labels. The operators
  pick positions (`Subsequence`) where `SelectSeq` would do, since its definition is
  recursive. `FingerprintIsStable`: hellos that differ in the order of cipher suites,
  extensions and signature algorithms and in GREASE values have one JA4. Sorted lists are
  bags here, and a bag counts positions; that the positions picked are numbered without gap
  or repeat (`NthNumbers`) turns a rearrangement of one list into one of the other.
  That a list of labels comes back is an induction over its length; it is proved
  by a least counterexample, which the axioms of Nat give without the induction theorem.
* `CaptureProofs`. The buffer is a beginning of the stream while packets come in order
  (`Gathered`); in any other order the buffer yields the name it yielded before, because
  searching from the front does not change its mind when more is appended (`NamedOnce`). That the first
  request is found is an event of the past, and must be carried on from the step that
  completes the header (`FirstFoundOnce`). Theorems: `TypeCorrect`, `HeadersAreFound`,
  `NamesAreAsked`, `SessionsHaveOneName`, `ForgeriesAreAccepted`, and `FingerprintsAreFound`.
  The last supposes that the whole hello is one of a software with a known JA4
  (`SameSoftware`): order and GREASE are then out of the way by `FingerprintIsStable`, and
  what is left is the division of the hello. The two hellos of the instance, which have
  different JA3, are of one software in this sense.
* `ResetRaceProofs`. The lemmas of `TcpResetProofs` hold for any packet that can be captured
  (`Captured`), so the invariant of the table carries over, and `RaceUsesTheTable` states the
  refinement: every step of the race is a step of `TcpReset` on the table or leaves it as it
  is. `RaceWithinBudget` follows, with echo too. `QuietSweepsAreExact` rests on `Quiet`, three
  facts about a race without echo: the line to an end carries just what separates its position from
  what the other end has sent (`InFlight`, counted down along the line, as a sum would be
  recursive); what a mirrored packet says of an end is behind what that end has sent, and the
  last packet of an end that owes nothing is up to date (`Overheard`); a position the table
  holds is 0 or behind as well (`Learned`). Then `Ahead` is true of exactly the newer of two
  positions, if no connection carries half the circle of positions while it is watched
  (`Short`), and if one offset is 0 (`Centred`, block.go:100) the sweep tries the position
  itself. Both are hypotheses of the theorem, stated in `ResetRace`; `MCResetRace` assumes
  them, so that TLC evaluates them. `Short` bounds the whole connection, where the
  code only needs it between two packets it sees of one end; a connection that
  carries more than 2 GB is outside the theorem. Theorems:
  `RaceTypeCorrect`, `RaceUsesTheTable`, `RaceWithinBudget`, `QuietSweepsAreExact`.

Model-checked only: the liveness properties `EventsLeave`, `Converges`, `QueriesArrive`,
`RulesSettle` and `OnlyAnswersDefeat`, since neither fairness nor ENABLED is in TLAPS's reach.
Every other property of a passing run is a theorem. The `violation` runs are counterexamples
and have none.

## 7. Not modelled

* Metrics texts, logging, the risk level, method and URI of an event: no decision depends
  on them. `extractSNI` (parse.go:213-270) is called by nobody.
* Bytes: text comes in fields. What a header of more than 8192 bytes contains is cut by
  `AppendPayload` as in the code; the properties speak of headers that fit. IPv6 (ignored by handlePacket), fragments, and
  frames that fail to decode.
* In `ResetRace`, data lost between the endpoints and retransmission; in `Capture` no more
  than one connection, since sessions do not influence each other there.
* What tshark prints, and the matching of names in `collector.py`: a query is given with
  the domain `match_category` finds, and a policy with the known domains `is_authorized`
  accepts. That a rule also matches subdomains is a hazard without a property yet.
* Rules of other programs in the chains, and edits by hand.
* `upgrade.sh` and `install.sh`: linear scripts over the state of a host and a cluster. The
  hazards of the upgrade's backup are listed.
* Charts, manifests, build and packaging scripts: declarative, or linear calls of tools.

## 8. Plan

1. An abstract at-least-once delivery, implemented by `DnsReport`, and the refinement proved.
2. `BypassGuard`: the composition of policy, verdict, upload and sessions: what is
   reported as blocked was blocked.
3. `Upgrade`: steps 5 and 6 of `upgrade.sh`, reruns, and the backup it rolls back to.
