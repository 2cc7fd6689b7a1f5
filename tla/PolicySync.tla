----------------------------- MODULE PolicySync -----------------------------
(***************************************************************************)
(* bypass-guard's detection policy and its two users.  The PolicyManager   *)
(* goroutine (policy.go) polls the Console for the mode and the domain     *)
(* policy and installs the answers piece by piece: mode, blacklist,        *)
(* authorized list and categories sit behind separate locks (engine.go,    *)
(* config.go, classify.go).  The capture goroutine's handleEvent reads the *)
(* pieces one after the other: categories, lists, mode.  Every lock        *)
(* section is one action, so a poll and an event interleave in every way   *)
(* the program allows.                                                     *)
(***************************************************************************)
EXTENDS Naturals

CONSTANTS
  Names,      \* spellings of domain names, in policies and in traffic
  Norm,       \* normalizeDomain: [Names -> Names]
  Supers,     \* a name and what follows each of its dots: [Names -> SUBSET Names]
  Traffic,    \* domains the parsers extract, normalised
  Local,      \* domain_blacklist of config.yaml
  ConfigMode, \* mode of config.yaml, after LoadConfig
  Modes,      \* answers the Console gives to detect-mode
  ErrorBody,  \* the body of an error page
  Policies,   \* answers the Console gives to dns-policy; the categories are
              \* rules, each the set of the names it lists, perhaps none
  MaxPublish  \* bound: changes an administrator makes on the Console

ASSUME PolicyAssumption ==
  /\ Norm \in [Names -> Names] /\ Supers \in [Names -> SUBSET Names]
  /\ Traffic \subseteq Names /\ Local \subseteq Names
  /\ \A d \in Traffic : Norm[d] = d
  /\ ConfigMode \in {"monitoring", "enforcement"}
  /\ ErrorBody # "enforcement"
  /\ \A p \in Policies :
       \/ p.shape = "object" /\ p.authorized \subseteq Names
          /\ p.cats \subseteq SUBSET Names
       \/ p.shape = "list" /\ p.authorized \subseteq Names /\ p.blocked \subseteq Names
  /\ MaxPublish \in Nat

VARIABLES
  cmode, cpolicy, changes, \* Console: what it serves, changes made so far
  offered,    \* history: modes the Console has served
  fetched,    \* history: policies fetchPolicy has returned
  mode,       \* Engine.mode
  blacklist,  \* Config.blacklistMap
  authorized, \* Config.authorizedMap
  policyActive, \* Config.policyActive
  cats,       \* dynamicCats: its rules
  installed,  \* history: policies that sync has installed to the end
  ppc, gotMode, gotPolicy, \* PolicyManager: where sync is, what it fetched
  cpc, ev,    \* capture goroutine: where handleEvent is, its event
  injected    \* the last event handled was answered by block

console == <<cmode, cpolicy, changes, offered>>
policy == <<blacklist, authorized, policyActive, cats>>
manager == <<ppc, gotMode, gotPolicy>>
capture == <<cpc, ev, injected>>
vars == <<console, fetched, mode, policy, installed, manager, capture>>

(* fetchPolicy's three results for an answer: the object form carries no   *)
(* blocked list, the list forms no categories.                            *)
Parsed(p) ==
  IF p.shape = "object"
  THEN [blocked |-> {}, authorized |-> p.authorized, cats |-> p.cats]
  ELSE [blocked |-> p.blocked, authorized |-> p.authorized, cats |-> {}]

(* An empty list is no policy. *)
Parses(p) == p.shape = "list" => p.blocked \cup p.authorized # {}

(* subdomainIn with the exact lookup before it, and matchIn: the name or   *)
(* a parent domain of it is in S.                                         *)
Hit(d, S) == Supers[d] \cap S # {}

(* ClassifyFull's search: some rule lists the name or a parent domain.     *)
(* (matchIn drops a leading dot and skips empty entries: the names of a    *)
(* rule are what is left.)                                                 *)
Matches(d, rules) == \E names \in rules : Hit(d, names)

(* What is empty after normalisation is skipped. *)
NormSet(S) == {Norm[n] : n \in S} \ {""}

NoPolicy == [blocked |-> {}, authorized |-> {}, cats |-> {}]
NoEvent == [domain |-> "none", matched |-> FALSE, blocked |-> FALSE, installed |-> {}]

Init ==
  /\ cmode \in Modes /\ cpolicy \in Policies /\ changes = 0
  /\ offered = {cmode} /\ fetched = {}
  /\ mode = ConfigMode
  /\ blacklist = Local /\ authorized = {} /\ policyActive = FALSE /\ cats = {}
  /\ installed = {}
  /\ ppc = "mode" /\ gotMode = "none" /\ gotPolicy = NoPolicy
  /\ cpc = "idle" /\ ev = NoEvent /\ injected = FALSE

-----------------------------------------------------------------------------
(* Console (outside the repository).                                       *)

Publish ==
  /\ changes < MaxPublish
  /\ changes' = changes + 1
  /\ \/ cmode' \in Modes /\ offered' = offered \cup {cmode'} /\ UNCHANGED cpolicy
     \/ cpolicy' \in Policies /\ UNCHANGED <<cmode, offered>>
  /\ UNCHANGED <<fetched, mode, policy, installed, manager, capture>>

-----------------------------------------------------------------------------
(* PolicyManager.Run and sync.                                             *)

Poll ==
  /\ ppc = "idle" /\ ppc' = "mode"
  /\ UNCHANGED <<console, fetched, mode, policy, installed, gotMode, gotPolicy, capture>>

(* fetchMode reads the whole body whatever the status of the answer is. *)
FetchModeGets(body) ==
  /\ ppc = "mode" /\ ppc' = "setmode"
  /\ gotMode' = body
  /\ UNCHANGED <<console, fetched, mode, policy, installed, gotPolicy, capture>>

FetchMode == FetchModeGets(cmode)
FetchModeErrorPage == FetchModeGets(ErrorBody)

FetchModeFails ==
  /\ ppc = "mode" /\ ppc' = "policy"
  /\ UNCHANGED <<console, fetched, mode, policy, installed, gotMode, gotPolicy, capture>>

(* Fault: the fetched string is stored as it is. *)
SetModeRaw ==
  /\ ppc = "setmode" /\ ppc' = "policy"
  /\ mode' = gotMode /\ gotMode' = "none"
  /\ UNCHANGED <<console, fetched, policy, installed, gotPolicy, capture>>

(* Fault: what is not "monitoring" enforces. *)
SetModeEager ==
  /\ ppc = "setmode" /\ ppc' = "policy"
  /\ mode' = (IF gotMode = "monitoring" THEN "monitoring" ELSE "enforcement")
  /\ gotMode' = "none"
  /\ UNCHANGED <<console, fetched, policy, installed, gotPolicy, capture>>

SetMode ==
  /\ ppc = "setmode" /\ ppc' = "policy"
  /\ mode' = (IF gotMode = "enforcement" THEN "enforcement" ELSE "monitoring")
  /\ gotMode' = "none"
  /\ UNCHANGED <<console, fetched, policy, installed, gotPolicy, capture>>

FetchPolicy ==
  /\ ppc = "policy" /\ Parses(cpolicy)
  /\ ppc' = "black"
  /\ gotPolicy' = Parsed(cpolicy)
  /\ fetched' = fetched \cup {Parsed(cpolicy)}
  /\ UNCHANGED <<console, mode, policy, installed, gotMode, capture>>

(* No answer, an error page, or an answer in none of the three forms. *)
FetchPolicyFails ==
  /\ ppc = "policy" /\ ppc' = "idle"
  /\ UNCHANGED <<console, fetched, mode, policy, installed, gotMode, gotPolicy, capture>>

(* Fault: the fetched list replaces the local one. *)
SetBlacklistDropsLocal ==
  /\ ppc = "black" /\ ppc' = "auth"
  /\ blacklist' = gotPolicy.blocked
  /\ UNCHANGED <<console, fetched, mode, authorized, policyActive, cats, installed,
                 gotMode, gotPolicy, capture>>

(* Fault: the fetched list is added to the map in place. *)
SetBlacklistAccumulates ==
  /\ ppc = "black" /\ ppc' = "auth"
  /\ blacklist' = blacklist \cup gotPolicy.blocked
  /\ UNCHANGED <<console, fetched, mode, authorized, policyActive, cats, installed,
                 gotMode, gotPolicy, capture>>

(* The fetched names are taken as spelled. *)
SetBlacklist ==
  /\ ppc = "black" /\ ppc' = "auth"
  /\ blacklist' = Local \cup gotPolicy.blocked
  /\ UNCHANGED <<console, fetched, mode, authorized, policyActive, cats, installed,
                 gotMode, gotPolicy, capture>>

(* Fault: the authorized names are taken as spelled, too. *)
SetAuthorizedRaw ==
  /\ ppc = "auth" /\ ppc' = "cats"
  /\ authorized' = gotPolicy.authorized /\ policyActive' = TRUE
  /\ UNCHANGED <<console, fetched, mode, blacklist, cats, installed, gotMode, gotPolicy,
                 capture>>

SetAuthorized ==
  /\ ppc = "auth" /\ ppc' = "cats"
  /\ authorized' = NormSet(gotPolicy.authorized) /\ policyActive' = TRUE
  /\ UNCHANGED <<console, fetched, mode, blacklist, cats, installed, gotMode, gotPolicy,
                 capture>>

(* Fault: an answer without categories empties the library. *)
SetDynamicCategoriesAlways ==
  /\ ppc = "cats" /\ ppc' = "idle"
  /\ cats' = gotPolicy.cats
  /\ installed' = installed \cup {gotPolicy} /\ gotPolicy' = NoPolicy
  /\ UNCHANGED <<console, fetched, mode, blacklist, authorized, policyActive,
                 gotMode, capture>>

(* An answer without rules leaves the library as it is; one whose rules    *)
(* list no names replaces it.                                              *)
SetDynamicCategories ==
  /\ ppc = "cats" /\ ppc' = "idle"
  /\ cats' = IF gotPolicy.cats # {} THEN gotPolicy.cats ELSE cats
  /\ installed' = installed \cup {gotPolicy} /\ gotPolicy' = NoPolicy
  /\ UNCHANGED <<console, fetched, mode, blacklist, authorized, policyActive,
                 gotMode, capture>>

-----------------------------------------------------------------------------
(* Capture goroutine: handleEvent, for a source that is not excluded.      *)

ClassifyFull(d) ==
  /\ cpc = "idle" /\ cpc' = "matched"
  /\ ev' = [domain |-> d, matched |-> Matches(d, cats), blocked |-> FALSE,
            installed |-> installed]
  /\ injected' = FALSE
  /\ UNCHANGED <<console, fetched, mode, policy, installed, manager>>

IsBlocked(d, matched) ==
  \/ Hit(Norm[d], blacklist)
  \/ policyActive /\ ~Hit(Norm[d], authorized) /\ matched

(* IsBlocked's lock section and Report: an event that is blocked or        *)
(* matched is reported, with status "blocked" iff ev.blocked.              *)
Judge ==
  /\ cpc = "matched" /\ cpc' = "judged"
  /\ ev' = [ev EXCEPT !.blocked = IsBlocked(ev.domain, ev.matched)]
  /\ UNCHANGED <<console, fetched, mode, policy, installed, manager, injected>>

(* currentMode, and block if it enforces. *)
Act ==
  /\ cpc = "judged" /\ cpc' = "idle"
  /\ injected' = (mode = "enforcement" /\ ev.blocked)
  /\ UNCHANGED <<console, fetched, mode, policy, installed, manager, ev>>

Sync == FetchMode \/ FetchModeErrorPage \/ FetchModeFails \/ SetMode
        \/ FetchPolicy \/ FetchPolicyFails
        \/ SetBlacklist \/ SetAuthorized \/ SetDynamicCategories

Next ==
  \/ Publish
  \/ Poll \/ Sync
  \/ \E d \in Traffic : ClassifyFull(d)
  \/ Judge \/ Act

Spec == Init /\ [][Next]_vars

(* The ticker fires and every request ends in 5 seconds.  Convergence      *)
(* also needs the Console to answer every so often.                        *)
Fairness == WF_vars(Poll) /\ WF_vars(Sync) /\ SF_vars(FetchMode) /\ SF_vars(FetchPolicy)
FairSpec == Spec /\ Fairness

-----------------------------------------------------------------------------
Triple == [blocked : SUBSET Names, authorized : SUBSET Names, cats : SUBSET SUBSET Names]

(* Type invariant.  Whatever a poll returns, the engine runs in one of its *)
(* two modes (engine.go:66-69).                                            *)
TypeOK ==
  /\ cmode \in Modes /\ cpolicy \in Policies /\ changes \in 0..MaxPublish
  /\ offered \subseteq Modes /\ fetched \subseteq Triple
  /\ mode \in {"monitoring", "enforcement"}
  /\ blacklist \subseteq Names /\ authorized \subseteq Names
  /\ policyActive \in BOOLEAN /\ cats \subseteq SUBSET Names
  /\ installed \subseteq Triple
  /\ ppc \in {"idle", "mode", "setmode", "policy", "black", "auth", "cats"}
  /\ gotMode \in Modes \cup {ErrorBody, "none"} /\ gotPolicy \in Triple
  /\ cpc \in {"idle", "matched", "judged"}
  /\ ev \in [domain : Traffic \cup {"none"}, matched : BOOLEAN,
             blocked : BOOLEAN, installed : SUBSET Triple]
  /\ (cpc # "idle" => ev.domain \in Traffic) /\ injected \in BOOLEAN

(* A domain on the local blacklist is judged blocked in every phase of     *)
(* every poll, whatever the Console authorizes (config.go:87, 119-121).    *)
LocalFloor ==
  (cpc = "judged" /\ Hit(ev.domain, Local)) => ev.blocked

(* A block has grounds: the local blacklist, a blocked list the manager    *)
(* received, or categories it received together with a received policy     *)
(* that does not authorize the domain.  So before the first answer only    *)
(* the local list blocks, and a domain every received policy authorizes    *)
(* passes even while the pieces in force come from different policies      *)
(* (policy.go:60-63, config.go:91-97).                                     *)
Grounds(d) ==
  \/ Hit(d, Local)
  \/ \E p \in fetched : Hit(d, p.blocked)
  \/ \E p, q \in fetched : Matches(d, p.cats) /\ ~Hit(d, NormSet(q.authorized))
BlocksAreGrounded ==
  (cpc = "judged" /\ ev.blocked) => Grounds(ev.domain)

(* A domain that all policies received block in one and the same way stays *)
(* blocked, answers without categories included (policy.go:60-69): either  *)
(* all of them list it, once one is installed, or none authorizes it and   *)
(* the categories of all that have any match it, once such a one is        *)
(* installed.  When one lists the domain and the next puts it in the first *)
(* categories received, it may pass: see VerdictOfOnePolicy.               *)
Listed(d) == \A p \in fetched : Hit(d, p.blocked)
Shadow(d) ==
  \A p \in fetched : (p.cats = {} \/ Matches(d, p.cats)) /\ ~Hit(d, NormSet(p.authorized))
ShadowStaysBlocked ==
  (/\ cpc = "judged"
   /\ \/ ev.installed # {} /\ Listed(ev.domain)
      \/ (\E p \in ev.installed : p.cats # {}) /\ Shadow(ev.domain))
  => ev.blocked

(* Packets are forged only if the configuration orders enforcement or the  *)
(* Console did at some time, and only on an event with grounds: no failed  *)
(* poll and no mixture of policies brings an injection about               *)
(* (engine.go:67-69, 92-101).                                              *)
EnforcementIsOrdered ==
  /\ mode = "enforcement" => (ConfigMode = "enforcement" \/ "enforcement" \in offered)
  /\ injected => /\ ConfigMode = "enforcement" \/ "enforcement" \in offered
                 /\ Grounds(ev.domain)

(* When the Console is left alone and answers every so often, the lists    *)
(* and categories in force become its own and stay so, and its mode is     *)
(* taken over again and again (policy.go:33-71).                           *)
InForce(p) ==
  /\ blacklist = Local \cup p.blocked
  /\ authorized = NormSet(p.authorized) /\ policyActive
  /\ p.cats # {} => cats = p.cats
ModeInForce == mode = (IF cmode = "enforcement" THEN "enforcement" ELSE "monitoring")
Converges ==
  /\ <>[](Parses(cpolicy) => InForce(Parsed(cpolicy)))
  /\ []<>ModeInForce

(* config.go:80: blocked means local blacklist or, by the Console's        *)
(* policy, AI and not authorized.  So a verdict is that of one policy the  *)
(* Console served, or of none before the first is installed: a domain is   *)
(* neither blocked that each of them lets pass, nor let pass that each of  *)
(* them blocks.  A policy without categories may be read with those of any *)
(* other.                                                                  *)
Verdict(p, rules, d) ==
  Hit(d, p.blocked) \/ (Matches(d, rules) /\ ~Hit(d, NormSet(p.authorized)))
Verdicts(p, d) ==
  IF p.cats # {} THEN {Verdict(p, p.cats, d)} ELSE {Verdict(p, q.cats, d) : q \in fetched}
VerdictOfOnePolicy ==
  (cpc = "judged" /\ ~Hit(ev.domain, Local)) =>
    \/ ev.installed = {} /\ ~ev.blocked
    \/ \E p \in fetched : ev.blocked \in Verdicts(p, ev.domain)
=============================================================================
