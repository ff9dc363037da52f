------------------------------ MODULE Approval ------------------------------
(***************************************************************************)
(* Who may let a request run: `ApprovalToken' of                           *)
(* pr-security/src/approval.rs, `PolicyRule' of pr-mcp/src/policy.rs and   *)
(* `authorise' of pr-mcp/src/tools.rs, over a session whose identity and   *)
(* database change (Session).                                              *)
(*                                                                         *)
(* A token binds the argv, the target, the database and three epochs; the  *)
(* identity epoch is the session's.  A hash is the thing hashed.  The      *)
(* caller, which counts what was authorised and sends it, is not in the    *)
(* repository: it sends at once, outside a transaction.                    *)
(***************************************************************************)
EXTENDS Session

CONSTANTS
    Requests,       \* requests: [argv, effects, keys, bytes, origin]
    Tools,          \* tools called
    Targets,        \* trust identities, by their hash
    Rule,           \* the policy rule in force: [keys, max_bytes, max_calls]
    MaxTokens,      \* bound: tokens issued
    MaxTime         \* bound: the clock, and with it every expiry

VARIABLES
    tokens,         \* tokens issued, oldest first
    used,           \* actions spent against each
    target,         \* the trust identity connected to
    policy,         \* the policy epoch; the topology epoch is treated alike
    now,            \* the clock
    calls,          \* calls a policy let through in the hour
    ran             \* what was authorised, by what, and where it ran

approvalVars == <<tokens, used, target, policy, now, calls, ran>>

\* Where a command takes effect.
Place == [target |-> target, db |-> server.db, login |-> server.login]

ApprovalInit ==
    /\ Init
    /\ tokens = <<>> /\ used = <<>> /\ target \in Targets
    /\ policy = 0 /\ now = 0 /\ calls = 0 /\ ran = {}

-----------------------------------------------------------------------------
(* Effects. *)

Mutates(e) == e \cap {"writes", "consumes", "admin", "destructive", "unknown"} # {}

BeyondReadOnly(e) ==
    e \cap {"unknown", "writes", "destructive", "consumes", "admin", "blocks"} # {}

-----------------------------------------------------------------------------
(* A token. *)

\* Bug: the identity epoch is not compared.
AuthoriseAnyIdentity(i, r) ==
    LET t == tokens[i]
    IN  /\ t.target = target /\ t.db = client.db /\ t.policy = policy
        /\ now < t.expires /\ used[i] < t.max_actions
        /\ t.argv = r.argv
        /\ t.issuer = "policy" => ~Mutates(r.effects) /\ r.origin \notin {"agent", "pipe"}

\* ApprovalToken::authorise, of token i for request r here and now.
Authorise(i, r) ==
    LET t == tokens[i]
    IN  /\ t.target = target /\ t.db = client.db
        /\ t.identity = client.identity /\ t.policy = policy
        /\ now < t.expires /\ used[i] < t.max_actions
        /\ t.argv = r.argv
        /\ t.issuer = "policy" => ~Mutates(r.effects) /\ r.origin \notin {"agent", "pipe"}

\* ApprovalToken::for_request; `place' is where the issuer saw it would run.
ForRequest(r, expires, issuer) ==
    [target |-> target, db |-> client.db, identity |-> client.identity, policy |-> policy,
     argv |-> r.argv, max_actions |-> 1, expires |-> expires, issuer |-> issuer,
     place |-> Place]

\* PolicyRule::may_authorise.
MayAuthorise(r) ==
    /\ "unknown" \notin r.effects
    /\ ~BeyondReadOnly(r.effects)
    /\ "reads" \in r.effects
    /\ Rule.keys # {} /\ r.keys # {} /\ r.keys \subseteq Rule.keys
    /\ r.bytes <= Rule.max_bytes
    /\ calls < Rule.max_calls

PolicyMayReach(tool) == tool \notin {"plan_write", "execute_approved_plan"}

\* Bug: a plan needs a person's token, unless it only reads.
ByUnlessItReads(tool, r, i) ==
    LET human == i # 0 /\ tokens[i].issuer = "human"
    IN  IF human THEN IF Authorise(i, r) THEN "human" ELSE "nobody"
        ELSE IF tool # "plan_write" /\ MayAuthorise(r) THEN "policy" ELSE "nobody"

\* authorise of tools.rs: by whom tool may issue r, token i being offered (0 for none).
By(tool, r, i) ==
    LET human == i # 0 /\ tokens[i].issuer = "human"
    IN  IF tool = "execute_approved_plan" \/ human
        THEN IF human /\ Authorise(i, r) THEN "human" ELSE "nobody"
        ELSE IF PolicyMayReach(tool) /\ MayAuthorise(r) THEN "policy" ELSE "nobody"

-----------------------------------------------------------------------------

\* A person, or a rule, signs a token for a request.
Issue(r, expires, issuer) ==
    /\ Len(tokens) < MaxTokens
    /\ tokens' = Append(tokens, ForRequest(r, expires, issuer))
    /\ used' = Append(used, 0)
    /\ UNCHANGED <<vars, target, policy, now, calls, ran>>

\* A tool is called and its request authorised; a refusal changes nothing.
CallTool(tool, r, i) ==
    LET by == By(tool, r, i)
    IN  /\ by # "nobody" /\ ~server.multi
        /\ used' = IF by = "human" THEN [used EXCEPT ![i] = @ + 1] ELSE used
        /\ calls' = IF by = "policy" THEN calls + 1 ELSE calls
        /\ ran' = ran \cup {[tool |-> tool, request |-> r, by |-> by, place |-> Place,
                             approved |-> IF i = 0 THEN Place ELSE tokens[i].place]}
        /\ UNCHANGED <<vars, tokens, target, policy, now>>

\* The world moves: the clock, an edit of the policy, a connection to another target.
Tick == now < MaxTime /\ now' = now + 1 /\ calls' = 0
        /\ UNCHANGED <<vars, tokens, used, target, policy, ran>>
EditPolicy == policy = 0 /\ policy' = 1
              /\ UNCHANGED <<vars, tokens, used, target, now, calls, ran>>
Retarget == /\ target' \in Targets \ {target}
            /\ Disconnect
            /\ UNCHANGED <<tokens, used, policy, now, calls, ran>>

ApprovalNext ==
    \/ Next /\ UNCHANGED approvalVars
    \/ \E r \in Requests, expires \in 1..MaxTime, issuer \in {"human", "policy"} :
           Issue(r, expires, issuer)
    \/ \E tool \in Tools, r \in Requests, i \in 0..Len(tokens) : CallTool(tool, r, i)
    \/ Tick \/ EditPolicy \/ Retarget

ApprovalSpec == ApprovalInit /\ [][ApprovalNext]_<<vars, approvalVars>>

-----------------------------------------------------------------------------
(* Properties. *)

\* Section 29.4: only a person's approval lets a request change anything or a plan run, along
\* every way through the tools, the rule and the tokens a rule may have signed.
OnlyAPersonApproves ==
    \A x \in ran :
        Mutates(x.request.effects) \/ x.tool = "execute_approved_plan" => x.by = "human"

\* ADR-024: what a person approved runs where they saw it would, on the same target, in the
\* same database and under the same login, whatever the session went through in between.
RunsWhereApproved == \A x \in ran : x.by = "human" => x.place = x.approved
=============================================================================
