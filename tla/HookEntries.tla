---------------------------- MODULE HookEntries ----------------------------
(* The entries of one event in the hooks file of one tool: their matchers,  *)
(* and what the writers do to the list for one hook (sync/hooks.py).        *)
EXTENDS Naturals, Sequences, SequencesExt

CONSTANTS Guards,     \* hooks under pre_tool_use
          Stops,      \* hooks under stop
          Notes       \* hooks under notification, an event of claude's only

Hooks == Guards \cup Stops \cup Notes

-----------------------------------------------------------------------------
(* Matchers.  {} is an entry without one, All is ".*", a set of names is a  *)
(* plain alternation, and one with Regex in it is any other expression.     *)

All == {"*"}
Regex == "?"
Plain(scope) == scope # {} /\ scope # All /\ Regex \notin scope

(* Tool names: Cursor has one name for Edit and Write; agy has its own.     *)
CursorNames == [Edit |-> "Write", Write |-> "Write", Bash |-> "Shell"]
AgyNames == [Edit |-> "replace_file_content", Write |-> "write_to_file", Bash |-> "run_command"]

TranslateTools(t, names) ==
    {CASE t = "cursor" /\ n \in DOMAIN CursorNames -> CursorNames[n]
       [] t = "agy" /\ n \in DOMAIN AgyNames -> AgyNames[n]
       [] OTHER -> n : n \in names}

ReverseToolName(n) ==
    CASE n = "Shell" -> "Bash"
      [] n \in {AgyNames[m] : m \in DOMAIN AgyNames} ->
           CHOOSE m \in DOMAIN AgyNames : AgyNames[m] = n
      [] OTHER -> n

ToolsToMatcher(names) == IF names = {} THEN All ELSE names
MatcherTools(scope) == IF Plain(scope) THEN {ReverseToolName(n) : n \in scope} ELSE {}

(* Mutant: the scope asked for replaces the one that is there. *)
WidenMatcherReplaces(scope, names) ==
    IF scope = {} \/ Plain(scope) THEN ToolsToMatcher(names) ELSE scope

(* An unscoped hook broadens what is itself a list of tools, never an       *)
(* expression crossby cannot read.                                          *)
WidenMatcher(scope, names) ==
    LET desired == ToolsToMatcher(names) IN
    IF scope = {} THEN desired
    ELSE IF desired = All THEN IF scope = All \/ Plain(scope) THEN All ELSE scope
    ELSE IF scope = All THEN All
    ELSE scope \cup desired

MergeMatcher(scope, names, owned) ==
    IF owned THEN ToolsToMatcher(names) ELSE WidenMatcher(scope, names)

-----------------------------------------------------------------------------
(* Entries.                                                                 *)

Event(h) == IF h \in Guards THEN "pre" ELSE IF h \in Stops THEN "stop" ELSE "note"
Entry(h, scope) == [cmds |-> {h}, scope |-> scope]
Holding(list, h) == {i \in DOMAIN list : h \in list[i].cmds}
Present(list, h) == Holding(list, h) # {}
FirstOf(list, h) == CHOOSE i \in Holding(list, h) : \A j \in Holding(list, h) : i <= j
Rescoped(list, i, scope) == [list EXCEPT ![i].scope = scope]
(* An entry left without a command goes too.                                *)
Without(list, h) ==
    FoldLeft(LAMBDA kept, e : IF e.cmds \subseteq {h} THEN kept
                              ELSE Append(kept, [e EXCEPT !.cmds = @ \ {h}]),
             <<>>, list)

ClaudeShaped(t) == t \in {"claude", "codex", "agy"}
(* Events on which a tool heeds a matcher.                                  *)
Scoped(t, event) ==
    \/ t = "claude"
    \/ t \in {"codex", "agy", "cursor"} /\ event = "pre"

-----------------------------------------------------------------------------
(* One hook into one list, an upsert by its command.                        *)

ClaudeUpsert(t, list, h, names, owned) ==
    LET event == Event(h) IN
    IF ~Present(list, h)
    THEN Append(list, Entry(h, IF Scoped(t, event) THEN ToolsToMatcher(names) ELSE {}))
    ELSE LET i == FirstOf(list, h) IN
         IF Scoped(t, event) THEN Rescoped(list, i, MergeMatcher(list[i].scope, names, owned))
         ELSE IF t = "codex" THEN Rescoped(list, i, {})
         ELSE list

(* Cursor: no matcher means all tools, and is never narrowed by hand.       *)
CursorUpsert(list, h, names, scoped, owned) ==
    IF ~Present(list, h) THEN Append(list, Entry(h, IF scoped THEN names ELSE {}))
    ELSE LET i == FirstOf(list, h)
             scope == list[i].scope IN
         Rescoped(list, i,
             IF ~scoped THEN {}
             ELSE IF owned THEN names
             ELSE IF scope = {} THEN {}
             ELSE WidenMatcher(scope, names))

(* Mutant: no look at what is there. *)
CopilotUpsertBlindly(list, h) == Append(list, Entry(h, {}))

CopilotUpsert(list, h) == IF Present(list, h) THEN list ELSE Append(list, Entry(h, {}))

-----------------------------------------------------------------------------
(* The tool calls an event's entries run a hook for.                        *)
Everything ==
    {"Edit", "Write", "Bash", "Shell", Regex, "*"} \cup {AgyNames[n] : n \in DOMAIN AgyNames}
Reach(scope) == IF scope \in {{}, All} THEN Everything ELSE scope
Reaches(t, event, list, h) ==
    UNION {IF Scoped(t, event) THEN Reach(list[i].scope) ELSE Everything : i \in Holding(list, h)}
=============================================================================
