------------------------------ MODULE ToolCall ------------------------------
(***************************************************************************)
(* One tool call of the chat after another: the policy's decision, the     *)
(* user's answer, the grants an answer leaves, and what the tool then      *)
(* touches.  Between any two steps the world moves on: a symlink is turned *)
(* elsewhere, a name gets another address.                                 *)
(*                                                                         *)
(* A directory or file is the sequence of names from the root; a path is   *)
(* what the model wrote, and `where` says what it resolves to now.         *)
(***************************************************************************)
EXTENDS Naturals, Sequences, FiniteSets, SequencesExt

CONSTANTS
  Paths,        \* paths a model may write
  Cwd,          \* the chat's working directory
  Folders,      \* directories; any other place is a file in its parent
  Targets,       \* what paths may resolve to
  ShellCommands,     \* shell commands
  Origins,      \* scheme, host and port of a URL
  Literals,     \* those whose host is an internal address, not a name
  Endpoints,    \* whether the model may run on another machine
  SkipPermissions,
  Configured,   \* sets of grants the configuration may start with
  Drafts,       \* what the permissions editor may be applied with
  MaxCalls, MaxChanges, MaxHops,
  Unset

\* One that asks for a file's directory, one for the place itself, as list_files does.
ReadTools    == {"read_file", "search_files"}

Grant(tool, dir, origin, internal, command) ==
  [tool |-> tool, dir |-> dir, origin |-> origin, internal |-> internal, command |-> command]
PathGrant(tool, dir)       == Grant(tool, dir, Unset, FALSE, Unset)
OriginGrant(o, internal)   == Grant("fetch_url", Unset, o, internal, Unset)
CommandGrant(c)            == Grant("shell_execute", Cwd, Unset, FALSE, c)

Places == Folders \cup Targets \cup {Front(t) : t \in Targets} \cup {Cwd, Unset}
AllGrants ==
  [tool : ReadTools \cup {"write_file", "shell_execute", "fetch_url", "this call"},
   dir : Places, origin : Origins \cup {Unset}, internal : BOOLEAN,
   command : ShellCommands \cup {Unset}]

Calls ==
  [tool : ReadTools \cup {"write_file"}, arg : Paths]
    \cup [tool : {"shell_execute"}, arg : ShellCommands]
    \cup [tool : {"fetch_url"}, arg : Origins]

Contexts ==
  [anywhere : BOOLEAN, roots : SUBSET Places,
   origins : SUBSET (Origins \cup {Unset}), internal : SUBSET (Origins \cup {Unset})]

ASSUME CallAssumption ==
  /\ Configured \subseteq SUBSET AllGrants /\ Drafts \subseteq SUBSET AllGrants
  /\ Unset \notin AllGrants \cup Calls \cup Contexts
  /\ {MaxCalls, MaxChanges, MaxHops} \subseteq Nat

VARIABLES
  remote,    \* _remote_endpoint
  managed,   \* _conversation_rules is not None: the editor has been applied
  rules,     \* and what it has left
  sessionGrants, \* _session_allowed_tools
  savedGrants,   \* allowed_tools in the configuration file
  allowAll,  \* _allow_all
  callGrant, \* _call_grant
  where,     \* what each path resolves to; Unset: it cannot be resolved
  address,   \* "public" or "internal", for each origin
  call,      \* the call in hand, Unset between taken
  at,        \* where it is
  question,  \* the Decision behind the dialog
  context,   \* the ToolContext of the running tool
  hop,       \* the origin fetch_url has come to, with the address it vetted
  hops,      \* redirects followed
  touched,   \* what the tool has just read, written, run or connected to
  agreed,    \* what the user has agreed to for this call alone
  standing,  \* the grants in force when the tool was started
  stopped,   \* stop_requested
  taken, changes   \* how many calls there were, how often the world moved

policyVars == <<remote, managed, rules, sessionGrants, savedGrants, allowAll>>
worldVars  == <<where, address, changes>>
fetchVars  == <<hop, hops>>
ghostVars  == <<agreed, standing>>
callVars == <<policyVars, worldVars, fetchVars, ghostVars, callGrant, call, at, question,
              context, touched, stopped, taken>>

-----------------------------------------------------------------------------
(* The policy.                                                             *)

Within(place, dir) == place # Unset /\ IsPrefix(dir, place)

\* parse_grants: what allowed_tools may say; write_file is never granted there.
ParseGrants(tokens) == {g \in tokens : g.tool # "write_file"}

Grants  == IF managed THEN rules ELSE ParseGrants(savedGrants) \cup ParseGrants(sessionGrants)

NoPrompt == [prompt |-> FALSE, grant |-> Unset, scoped |-> FALSE]
Permitted(g) == [prompt |-> FALSE, grant |-> g, scoped |-> FALSE]
Ask(g, scoped) == [prompt |-> TRUE, grant |-> g, scoped |-> scoped]

DecideShell(c) ==
  IF CommandGrant(c) \in Grants THEN Permitted(CommandGrant(c)) ELSE Ask(CommandGrant(c), TRUE)

DecideWrite(p) ==
  LET covering == {g \in Grants : g.tool = "write_file" /\ Within(where[p], g.dir)}
  IN  IF managed /\ covering # {} THEN Permitted(CHOOSE g \in covering : TRUE)
      ELSE Ask(Unset, FALSE)

DecideRead(tool, p) ==
  LET target == where[p]
      scope  == IF tool = "read_file" /\ target \notin Folders THEN Front(target) ELSE target
  IN  IF target = Unset THEN Ask(Unset, FALSE)
      ELSE IF remote THEN Ask(PathGrant(tool, scope), FALSE)
      ELSE IF \/ Within(target, Cwd)
              \/ \E g \in Grants : g.tool = tool /\ Within(target, g.dir)
           THEN NoPrompt
      ELSE Ask(PathGrant(tool, scope), TRUE)

\* A name shows what it stands for when it is fetched, an address at once.
DecideFetch(o) ==
  LET internal == o \in Literals
  IN  IF \E g \in Grants : g.tool = "fetch_url" /\ g.origin = o /\ (internal => g.internal)
      THEN NoPrompt ELSE Ask(OriginGrant(o, internal), TRUE)

Decide(c) ==
  IF allowAll THEN NoPrompt
  ELSE CASE c.tool = "shell_execute"  -> DecideShell(c.arg)
         [] c.tool = "write_file"     -> DecideWrite(c.arg)
         [] c.tool \in ReadTools      -> DecideRead(c.tool, c.arg)
         [] c.tool = "fetch_url"      -> DecideFetch(c.arg)

\* What the user says yes to: a scope, or just this call as it stands.
ThisCall == Grant("this call", Unset, Unset, FALSE, Unset)
Consent(decision) == IF decision.grant = Unset THEN ThisCall ELSE decision.grant

\* fetch_origins, read_roots and the write roots of _run_tool, with the call's own grant.
Given(tool, g) == {x \in {g} : x # Unset /\ x.tool = tool}
FetchGrants(g) == {x \in Grants : x.tool = "fetch_url"} \cup Given("fetch_url", g)
ReadRoots(tool, g) ==
  (IF remote THEN {} ELSE {Cwd} \cup {x.dir : x \in {y \in Grants : y.tool = tool}})
    \cup {x.dir : x \in Given(tool, g)}

ToolContext(c, g) ==
  [anywhere |-> IF c.tool = "write_file" THEN g = Unset ELSE allowAll,
   roots    |-> IF c.tool \in ReadTools THEN ReadRoots(c.tool, g)
                ELSE {x.dir : x \in Given("write_file", g)},
   origins  |-> {x.origin : x \in FetchGrants(g)},
   internal |-> {x.origin : x \in {y \in FetchGrants(g) : y.internal}}]

-----------------------------------------------------------------------------
(* The call: decided, confirmed, started.                                  *)

CallInit ==
  /\ remote \in Endpoints
  /\ managed = FALSE /\ rules = {} /\ sessionGrants = {} /\ allowAll = FALSE
  /\ savedGrants \in Configured
  /\ where \in [Paths -> Targets \cup {Unset}]
  /\ address = [o \in Origins |-> IF o \in Literals THEN "internal" ELSE "public"]
  /\ callGrant = Unset /\ call = Unset /\ at = "idle" /\ question = NoPrompt
  /\ context = Unset /\ hop = Unset /\ hops = 0 /\ touched = Unset
  /\ agreed = {} /\ standing = [all |-> FALSE, grants |-> {}]
  /\ stopped = FALSE /\ taken = 0 /\ changes = 0

\* The call's own state goes with it.
Finish(x) ==
  /\ at' = "idle" /\ touched' = x
  /\ call' = Unset /\ question' = NoPrompt /\ context' = Unset /\ hop' = Unset /\ hops' = 0

TakeCall(c) ==
  /\ at = "idle" /\ taken < MaxCalls
  /\ taken' = taken + 1
  /\ call' = c /\ stopped' = FALSE /\ touched' = Unset
  /\ question' = Decide(c)
  /\ standing' = [all |-> allowAll, grants |-> Grants]
  /\ IF Decide(c).prompt /\ ~SkipPermissions
     THEN at' = "asked" /\ agreed' = {} /\ UNCHANGED callGrant
     ELSE /\ at' = "allowed" /\ callGrant' = Decide(c).grant
          /\ agreed' = IF Decide(c).prompt THEN {Consent(Decide(c))} ELSE {}
  /\ UNCHANGED <<policyVars, worldVars, fetchVars, context>>

\* What "session" and "always" leave; saving to the file may fail.
Remember(choice, g) ==
  /\ sessionGrants' = sessionGrants \cup {g}
  /\ rules' = IF managed THEN rules \cup {g} ELSE rules
  /\ savedGrants' \in {savedGrants} \cup
                     IF choice = "always" THEN {savedGrants \cup {g}} ELSE {}
  /\ UNCHANGED <<remote, managed, allowAll>>

Choose(choice) ==
  IF choice \in {"session", "always"} THEN question.scoped /\ Remember(choice, question.grant)
  ELSE UNCHANGED policyVars

Allow(choice) ==
  /\ at = "asked" /\ ~stopped
  /\ Choose(choice)
  /\ agreed' = {Consent(question)}
  /\ at' = "allowed" /\ callGrant' = question.grant
  /\ UNCHANGED <<worldVars, fetchVars, context, call, question, touched, standing, stopped, taken>>

\* The beginning of _run_tool uses the grant up, unless the reply was stopped first.
StartTool ==
  /\ at = "allowed"
  /\ IF stopped
     THEN Finish(Unset) /\ UNCHANGED callGrant
     ELSE /\ at' = "running" /\ callGrant' = Unset
          /\ context' = ToolContext(call, callGrant)
          /\ hop' = IF call.tool = "fetch_url" THEN [origin |-> call.arg, address |-> Unset]
                    ELSE Unset
          /\ UNCHANGED <<hops, call, question, touched>>
  /\ UNCHANGED <<policyVars, worldVars, ghostVars, stopped, taken>>

RefuseCall ==  \* or the cancelled dialog of a stopped reply
  /\ at = "asked"
  /\ Finish(Unset) /\ callGrant' = Unset
  /\ UNCHANGED <<policyVars, worldVars, ghostVars, stopped, taken>>

-----------------------------------------------------------------------------
(* The tool, in its thread.                                                *)

Quiet == UNCHANGED <<policyVars, worldVars, callGrant, stopped, taken>>

InRoots(place) == context.anywhere \/ \E r \in context.roots : Within(place, r)

\* Files are resolved again just before they are opened, and refused outside what
\* this call may open; the instant between the two is not modelled.
UseFile ==
  /\ at = "running" /\ call.tool \in ReadTools \cup {"write_file"}
  /\ LET place == where[call.arg]
     IN  Finish(IF place # Unset /\ InRoots(place) THEN [tool |-> call.tool, place |-> place]
                ELSE Unset)
  /\ Quiet /\ UNCHANGED ghostVars

RunCommand ==
  /\ at = "running" /\ call.tool = "shell_execute"
  /\ Finish([tool |-> "shell_execute", place |-> call.arg])
  /\ Quiet /\ UNCHANGED ghostVars

Vetted(a) == at' = "vetted" /\ hop' = [hop EXCEPT !.address = a]
Approve(o, blocked) ==
  context' = [context EXCEPT !.origins = @ \cup {o},
                             !.internal = IF blocked THEN @ \cup {o} ELSE @]

\* _vet_hop and _approve_origin: let through, approve from the grants, or ask.
VetHop ==
  /\ at = "running" /\ call.tool = "fetch_url"
  /\ LET o       == hop.origin
         blocked == address[o] = "internal"
         covered == o \in context.origins /\ (blocked => o \in context.internal)
         known   == \E g \in Grants : g.tool = "fetch_url" /\ g.origin = o
                                        /\ (blocked => g.internal)
         free    == ~stopped /\ (allowAll \/ known \/ SkipPermissions)
     IN  \/ covered /\ Vetted(address[o]) /\ UNCHANGED <<context, question, agreed>>
         \/ /\ ~covered /\ free
            /\ Vetted(address[o]) /\ Approve(o, blocked)
            /\ agreed' = IF allowAll \/ known THEN agreed
                         ELSE agreed \cup {OriginGrant(o, blocked)}
            /\ UNCHANGED question
         \/ /\ ~covered /\ ~free /\ ~stopped
            /\ at' = "asked midway" /\ hop' = [hop EXCEPT !.address = address[o]]
            /\ question' = Ask(OriginGrant(o, blocked), TRUE)
            /\ UNCHANGED <<context, agreed>>
  /\ Quiet /\ UNCHANGED <<call, hops, touched, standing>>

RefuseHop ==  \* an origin met after the stop is not even asked about
  /\ at = "running" /\ call.tool = "fetch_url" /\ stopped
  /\ ~(hop.origin \in context.origins
       /\ (address[hop.origin] = "internal" => hop.origin \in context.internal))
  /\ Finish(Unset)
  /\ Quiet /\ UNCHANGED ghostVars

AllowMidway(choice) ==
  /\ at = "asked midway" /\ ~stopped
  /\ Choose(choice)
  /\ agreed' = agreed \cup {Consent(question)}
  /\ at' = "vetted"
  /\ Approve(hop.origin, question.grant.internal)
  /\ UNCHANGED <<worldVars, fetchVars, callGrant, call, question, touched, standing, stopped, taken>>

RefuseMidway ==  \* or the thread, polling, sees the stop
  /\ at = "asked midway"
  /\ Finish(Unset)
  /\ Quiet /\ UNCHANGED ghostVars

ConnectByName ==  \* mutant: looks the name up again
  /\ at = "vetted"
  /\ LET there == [tool |-> "fetch_url", place |-> [hop EXCEPT !.address = address[hop.origin]]]
     IN  \/ Finish(there)
         \/ /\ hops < MaxHops /\ hops' = hops + 1
            /\ at' = "running" /\ touched' = there
            /\ \E o \in Origins : hop' = [origin |-> o, address |-> Unset]
            /\ UNCHANGED <<call, context, question>>
  /\ Quiet /\ UNCHANGED ghostVars

ConnectOnceMore ==  \* mutant: counts redirects from one
  /\ at = "vetted"
  /\ LET there == [tool |-> "fetch_url", place |-> hop]
     IN  \/ Finish(there)
         \/ /\ hops <= MaxHops /\ hops' = hops + 1
            /\ at' = "running" /\ touched' = there
            /\ \E o \in Origins : hop' = [origin |-> o, address |-> Unset]
            /\ UNCHANGED <<call, context, question>>
  /\ Quiet /\ UNCHANGED ghostVars

\* The request goes to the address that was vetted, not to what the name means now.
Connect ==
  /\ at = "vetted"
  /\ LET there == [tool |-> "fetch_url", place |-> hop]
     IN  \/ Finish(there)  \* the body, an error, or one redirect too many
         \/ /\ hops < MaxHops /\ hops' = hops + 1
            /\ at' = "running" /\ touched' = there
            /\ \E o \in Origins : hop' = [origin |-> o, address |-> Unset]
            /\ UNCHANGED <<call, context, question>>
  /\ Quiet /\ UNCHANGED ghostVars

-----------------------------------------------------------------------------
(* The user and the world meanwhile.                                       *)

StopReply ==
  /\ at # "idle" /\ ~stopped
  /\ stopped' = TRUE
  /\ UNCHANGED <<policyVars, worldVars, fetchVars, ghostVars, callGrant, call, at, question,
                 context, touched, taken>>

ApplyPermissions ==  \* the editor opens between replies only
  /\ at = "idle" /\ ~managed
  /\ managed' = TRUE /\ rules' \in Drafts /\ allowAll' \in BOOLEAN
  /\ UNCHANGED <<remote, sessionGrants, savedGrants, worldVars, fetchVars, ghostVars, callGrant, call, at, question,
                 context, touched, stopped, taken>>

ResetPermissions ==  \* /new, /model, a session is loaded
  /\ at = "idle" /\ (sessionGrants # {} \/ managed)
  /\ sessionGrants' = {} /\ managed' = FALSE /\ rules' = {} /\ allowAll' = FALSE /\ callGrant' = Unset
  /\ UNCHANGED <<remote, savedGrants, worldVars, fetchVars, ghostVars, call, at, question, context, touched,
                 stopped, taken>>

Change ==
  /\ changes < MaxChanges /\ changes' = changes + 1
  /\ \/ \E p \in Paths, x \in Targets : where' = [where EXCEPT ![p] = x] /\ UNCHANGED address
     \/ \E o \in Origins \ Literals, a \in {"public", "internal"} :
          address' = [address EXCEPT ![o] = a] /\ UNCHANGED where
  /\ UNCHANGED <<policyVars, fetchVars, ghostVars, callGrant, call, at, question, context, touched,
                 stopped, taken>>

CallNext ==
  \/ \E c \in Calls : TakeCall(c)
  \/ \E choice \in {"once", "session", "always"} : Allow(choice) \/ AllowMidway(choice)
  \/ RefuseCall \/ RefuseMidway \/ StartTool
  \/ UseFile \/ RunCommand \/ VetHop \/ RefuseHop \/ Connect
  \/ StopReply \/ ApplyPermissions \/ ResetPermissions \/ Change

CallSpec == CallInit /\ [][CallNext]_callVars

\* The thread runs; the user may leave a dialog open for ever, a stop does not.
CallFairness ==
  /\ WF_callVars(stopped /\ (RefuseCall \/ RefuseMidway))
  /\ WF_callVars(StartTool \/ UseFile \/ RunCommand \/ VetHop \/ RefuseHop \/ Connect)

-----------------------------------------------------------------------------
(* What must hold.                                                         *)

\* Type invariant of the call.
CallTypeOK ==
  /\ call \in Calls \cup {Unset}
  /\ at \in {"idle", "asked", "allowed", "running", "vetted", "asked midway"}
  /\ allowAll \in BOOLEAN /\ stopped \in BOOLEAN
  /\ question \in [prompt : BOOLEAN, grant : AllGrants \cup {Unset}, scoped : BOOLEAN]
  /\ (at = "idle") <=> (call = Unset)
  /\ IF at \in {"running", "vetted", "asked midway"} THEN context \in Contexts
     ELSE context = Unset
  /\ hops \in 0..MaxHops /\ taken \in 0..MaxCalls /\ changes \in 0..MaxChanges

\* Whatever a tool opens, writes, runs or connects to lies within what the user
\* allows: a standing rule as it was when the call was decided, or the answer given
\* for this very call; whatever the links and names involved have come to mean since.
TouchedWithinConsent ==
  touched # Unset =>
    LET scopes == standing.grants \cup agreed
        mine   == {g \in scopes : g.tool = touched.tool}
    IN  \/ standing.all
        \/ /\ touched.tool \in ReadTools
           /\ \/ ~remote /\ Within(touched.place, Cwd)
              \/ \E g \in mine : (remote => g \in agreed) /\ Within(touched.place, g.dir)
        \/ /\ touched.tool = "write_file"
           /\ ThisCall \in agreed \/ \E g \in mine : Within(touched.place, g.dir)
        \/ /\ touched.tool = "shell_execute"
           /\ \E g \in mine : g.command = touched.place
        \/ /\ touched.tool = "fetch_url"
           /\ \E g \in mine : g.origin = touched.place.origin
                              /\ (touched.place.address = "internal" => g.internal)

\* A stopped reply gets its tool back although nobody answers a dialog any more.
NoToolStopped == ~stopped \/ at = "idle"
StopEndsTool  == []<>NoToolStopped
=============================================================================
