---------------------------- MODULE PolicySuite ----------------------------
(***************************************************************************)
(* Who may do what, and who runs it, checked in one run: the plugin's      *)
(* process tree (PluginTree, extended), the rules of a connection, the     *)
(* signed policy snapshots and the relay of remote approvals.  They share  *)
(* no state here.  A behaviour runs the one `part' names; the others stay  *)
(* as they start.                                                          *)
(***************************************************************************)
EXTENDS PluginTree, Sequences

CONSTANTS Parts

VARIABLES part,
    preset, rules, overrides, operations, scopes,
    time, trust, active, raw, editor, origin,
    now, gone, obs, fresh, tomb, affected, rows, events, fault, req, told

ruleVars == <<preset, rules, overrides, operations, scopes>>
policyVars == <<time, trust, active, raw, editor, origin>>
relayVars == <<now, gone, obs, fresh, tomb, affected, rows, events, fault, req, told>>
suiteVars == <<part, vars, ruleVars, policyVars, relayVars>>

\* Rules over paths of two segments, for everybody and for one caller; the
\* operations of the built-in presets.
Lit(text) == [kind |-> "literal", text |-> text]
Wild == [kind |-> "any", text |-> "*"]
Rest == [kind |-> "rest", text |-> "**"]
Rules == INSTANCE ConnectionRules WITH
    Pattern <- {<<Rest>>, <<Lit("a")>>, <<Lit("a"), Rest>>, <<Wild, Lit("b")>>,
                <<[kind |-> "named", text |-> "x"], Rest>>},
    Path <- {<<>>} \cup {<<a>> : a \in {"a", "b"}} \cup {<<a, b>> : a, b \in {"a", "b"}},
    Bindings <- [x |-> {"a"}], PresetName <- {"generic-bearer"},
    MaxRules <- 2, MaxOverrides <- 1, MaxOperations <- 0
Presets == INSTANCE ConnectionRules WITH
    Pattern <- {<<Rest>>}, Path <- {<<>>}, Bindings <- [x |-> {"a"}],
    PresetName <- {"google-drive", "google-gmail", "google-calendar", "github-oauth", "slack",
                   "notion", "anthropic", "openai", "glm", "glm-responses", "deepseek", "moonshot",
                   "qwen", "openrouter", "gemini", "github-pat", "github-git"},
    MaxRules <- 0, MaxOverrides <- 0, MaxOperations <- 4

\* A snapshot written by hand; a personal draft of profiles; two editors.
Written == INSTANCE PolicySnapshots WITH
    Principals <- {"p"}, Actions <- {"a"}, Hashes <- {"h", "i"}, Keys <- {1, 2},
    RuleIds <- {1, 2, 3}, MaxRules <- 2, Capabilities <- {}, ChoiceRules <- {}, Budgets <- {},
    MaxProfiles <- 0, Names <- {"n"}, Editors <- {}, Exact <- 4, Expiries <- {}, MaxNow <- 0,
    now <- time
Drafts == INSTANCE PolicySnapshots WITH
    Principals <- {"p", "q"}, Actions <- {"a", "b"}, Hashes <- {"h"}, Keys <- {}, RuleIds <- {},
    MaxRules <- 0, Capabilities <- {"c"}, ChoiceRules <- {"default", "approval"}, Budgets <- {1},
    MaxProfiles <- 2, Names <- {"n"}, Editors <- {"e"}, Exact <- 2, Expiries <- {1}, MaxNow <- 0,
    now <- time
Edited == INSTANCE PolicySnapshots WITH
    Principals <- {"p"}, Actions <- {"a"}, Hashes <- {"h"}, Keys <- {}, RuleIds <- {},
    MaxRules <- 0, Capabilities <- {"c"}, ChoiceRules <- {"default"}, Budgets <- {1},
    MaxProfiles <- 1, Names <- {"n"}, Editors <- {"e", "f"}, Exact <- 2, Expiries <- {2, 3},
    MaxNow <- 1, now <- time

\* The relay while the directory removes a member and takes it back; while the
\* store fails; while files expire and are cleaned up.
Removing == INSTANCE ApprovalRelay WITH
    Uploader <- "u", Approvers <- {"a"}, Movable <- {"a"}, Ids <- {1}, Files <- {"f"},
    ExpiryOf <- [f \in {"f"} |-> 9], Operations <- {"put challenge", "get challenge"},
    Requests <- {"r"}, FreshFor <- 0, AnswerTime <- 1, TokenTime <- 1, Retention <- 9,
    MaxRows <- 1, MaxEvents <- 2, MaxTime <- 2, StoreFails <- FALSE
AllOps == {"put challenge", "put grant", "get challenge", "get grant", "metadata", "directory"}
Failing == INSTANCE ApprovalRelay WITH
    Uploader <- "u", Approvers <- {"a"}, Movable <- {"a"}, Ids <- {1}, Files <- {"f"},
    ExpiryOf <- [f \in {"f"} |-> 9], Operations <- AllOps,
    Requests <- {"r"}, FreshFor <- 0, AnswerTime <- 0, TokenTime <- 1, Retention <- 9,
    MaxRows <- 1, MaxEvents <- 3, MaxTime <- 0, StoreFails <- TRUE
Expiring == INSTANCE ApprovalRelay WITH
    Uploader <- "u", Approvers <- {"a"}, Movable <- {}, Ids <- {1}, Files <- {"f", "g"},
    ExpiryOf <- [f \in {"f", "g"} |-> IF f = "f" THEN 9 ELSE 1], Operations <- AllOps,
    Requests <- {"r"}, FreshFor <- 4, AnswerTime <- 0, TokenTime <- 2, Retention <- 0,
    MaxRows <- 1, MaxEvents <- 2, MaxTime <- 1, StoreFails <- FALSE

ASSUME /\ Written!BoundsAssumption /\ Drafts!BoundsAssumption /\ Edited!BoundsAssumption
       /\ Removing!RelayAssumption /\ Failing!RelayAssumption /\ Expiring!RelayAssumption

-----------------------------------------------------------------------------
SuiteInit ==
    /\ part \in Parts
    /\ Init
    /\ part # "plugin" => artifact = Registered
    /\ IF part = "presets" THEN Presets!Init ELSE Rules!Init
    /\ CASE part = "drafts" -> Drafts!Init [] part = "edited" -> Edited!Init
         [] OTHER -> Written!Init
    /\ part \notin {"written", "drafts", "edited"} => trust = CHOOSE a \in Written!Algorithm : TRUE
    /\ CASE part = "expiring" -> Expiring!Init [] part = "failing" -> Failing!Init
         [] OTHER -> Removing!Init

SuiteNext ==
    /\ part' = part
    /\ IF part = "plugin" THEN Next ELSE UNCHANGED vars
    /\ CASE part = "rules" -> Rules!Next [] part = "presets" -> Presets!Next
         [] OTHER -> UNCHANGED ruleVars
    /\ CASE part = "written" -> Written!Next [] part = "drafts" -> Drafts!Next
         [] part = "edited" -> Edited!Next [] OTHER -> UNCHANGED policyVars
    /\ CASE part = "removing" -> Removing!Next [] part = "expiring" -> Expiring!Next
         [] part = "failing" -> Failing!Next [] OTHER -> UNCHANGED relayVars

SuiteSpec == SuiteInit /\ [][SuiteNext]_suiteVars

-----------------------------------------------------------------------------
\* Rules and policies decide as they read: a denial is absolute, callers only
\* tighten, a narrower rule wins; one approval requirement, drafted profiles
\* decide as chosen; the operations of a preset have their scopes; a plugin
\* runs what was registered and leaves nothing; revocations at the relay are
\* complete.
DecidesAsWritten ==
    /\ part = "plugin" => /\ TypeOK /\ GuardianLeavesNone /\ ExecutesRegistered
                          /\ LeafUnderDelegatedRoot
    /\ part = "rules" => Rules!DenyIsAbsolute /\ Rules!CallersOnlyTighten /\ Rules!NarrowerRuleWins
    /\ part = "presets" => /\ Presets!TypeOK /\ Presets!ScopeCoversOperation
                           /\ Presets!GenerationIsCapped /\ Presets!ReadsAreDeclared
    /\ part = "written" => Written!OneRequirement /\ Written!AllowedIsRequestable
    /\ part = "drafts" => Drafts!DecidesAsChosen
    /\ part = "edited" => Edited!TypeOK
    /\ part = "removing" => Removing!TypeOK /\ Removing!RevocationIsComplete
    /\ part = "failing" => Failing!TypeOK /\ Failing!RevocationIsComplete
    /\ part = "expiring" => Expiring!TypeOK

\* A step never overrides what was decided: a permit added overrides no other
\* rule, what is activated is what its editor reviewed and replaces what it
\* read, and at the relay the removed are cut off, files are never replaced
\* and grants are kept.
NothingOverridden ==
    [][/\ part = "written" => Written!PermitNeverOverrides
       /\ part = "edited" => /\ Edited!ReviewedIsActivated /\ Edited!SignedAsAsked
                             /\ Edited!OmittedSectionsKept /\ Edited!NoLostUpdate
       /\ part = "removing" => Removing!RemovedIsCutOff /\ Removing!ToldIsFinal
       /\ part = "failing" => Failing!RemovedIsCutOff /\ Failing!ToldIsFinal
       /\ part = "expiring" => Expiring!FilesAreImmutable /\ Expiring!GrantsAreRetained]_suiteVars
=============================================================================
