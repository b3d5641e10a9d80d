---------------------------- MODULE Permissions ----------------------------
(***************************************************************************)
(* Who may run a tool call: the permission policy that bootstrap() installs *)
(* (core/permissions/policy.py with the one rule of core/bootstrap.py) and  *)
(* the standing approvals a user grants (core/permissions/trust.py).        *)
(*                                                                         *)
(* Arguments are opaque members of Args. What the policy looks at in them   *)
(* (a truthy "overwrite" key) is the set OverwriteArgs; what a trust rule's *)
(* pattern looks at (equality on the keys it names) is the set of arguments *)
(* the pattern covers.                                                      *)
(***************************************************************************)
CONSTANTS
    Tools,          \* tool names held by the registry
    Args,           \* resolved argument objects
    Level,          \* [Tools -> PermissionLevel]
    CreateTools,    \* _CREATE_OR_OVERWRITE_TOOLS
    OverwriteArgs   \* the arguments whose "overwrite" is truthy

PermissionLevel == {"LOW", "REVIEW", "RESTRICTED"}

Decision == {"allow", "require_approval", "deny"}

ASSUME PermissionAssumption ==
    /\ Level \in [Tools -> PermissionLevel]
    /\ CreateTools \subseteq Tools
    /\ OverwriteArgs \subseteq Args

\* default_policy(): creating a new file is low-risk, overwriting one is not.
CreatesNewFile(tool, args) == tool \in CreateTools /\ args \notin OverwriteArgs

\* PermissionPolicy.decide(): the first matching rule, else the tool's level.
Decide(tool, args) ==
    CASE CreatesNewFile(tool, args) \/ Level[tool] = "LOW" -> "allow"
      [] ~CreatesNewFile(tool, args) /\ Level[tool] = "REVIEW" -> "require_approval"
      [] OTHER -> "deny"

\* A TrustRule row: a tool and the argument objects its pattern matches.
TrustRule == [tool : Tools, covers : SUBSET Args]

\* rule_matches() over TrustRuleRepository.list_all().
Trusted(rules, tool, args) == \E r \in rules : r.tool = tool /\ args \in r.covers
=============================================================================
