---------------------------- MODULE CommandPolicy ----------------------------
(***************************************************************************)
(* The verdict of ContractEngine (esaa/contracts.rs) on one intention, and *)
(* under it PolicyEngine::evaluate (policy.rs): a shell command is taken   *)
(* apart through a work queue, each fragment is judged on its own and the  *)
(* most restrictive judgement stands.                                      *)
(*                                                                         *)
(* A command is a sequence of tokens: separators, quotes, brackets and     *)
(* words.  ";" stands for every separator (`&&` is two of `&`, and an      *)
(* empty piece is dropped, so the two forms split alike), "$(" for the two *)
(* characters, "$v" for a variable, "sh -c" for the wrapper.  A glob of    *)
(* the configuration is the first word it matches.  A path is the sequence *)
(* of its components, absolute when the first is "".                       *)
(***************************************************************************)
EXTENDS Naturals, Sequences, FiniteSets, SequencesExt

CONSTANTS
    Policies,         \* policy configurations: [enabled, deny, ask, allow]
    Contracts,        \* file contracts: [dirs, deny]
    Intentions,       \* [kind, command, path]
    MaxFragmentDepth  \* MAX_FRAGMENT_DEPTH

VARIABLES
    policy,     \* the policy configuration
    contract,   \* the file contract
    intention,  \* what is judged
    pc,         \* "start", "collect", "judge", "done", "panicked"
    queue,      \* the work queue: commands with their depth
    seen,       \* the fragments met so far
    fragments,  \* collect_all_fragments' result, in order
    next,       \* the fragment to judge next
    worst,      \* the most restrictive judgement so far
    verdict     \* "none", "approved", "human", "denied"

vars == <<policy, contract, intention, pc, queue, seen, fragments, next, worst, verdict>>
-----------------------------------------------------------------------------
(* split_compound_commands: one pass over the tokens.                      *)
Piece(acc) == IF acc.cur = << >> THEN acc
              ELSE [acc EXCEPT !.out = Append(@, acc.cur), !.cur = << >>]

SplitToken(acc, tok) ==
    LET keep == [acc EXCEPT !.cur = Append(@, tok)]
        go(s) == [keep EXCEPT !.state = s]
    IN CASE acc.state = "normal" ->
                (CASE tok = ";"  -> Piece(acc)
                   [] tok = "\\" -> go("escape")
                   [] tok = "'"  -> go("single")
                   [] tok = "\"" -> go("double")
                   [] tok \in {"(", "$("} -> [go("paren") EXCEPT !.depth = 1]
                   [] OTHER -> keep)
         [] acc.state = "single" -> IF tok = "'" THEN go("normal") ELSE keep
         [] acc.state = "double" -> (CASE tok = "\\" -> go("double_escape")
                                       [] tok = "\"" -> go("normal")
                                       [] OTHER -> keep)
         [] acc.state = "double_escape" -> go("double")
         [] acc.state = "escape" -> go("normal")
         [] acc.state = "paren" ->
                (CASE tok \in {"(", "$("} -> [keep EXCEPT !.depth = @ + 1]
                   [] tok = ")" -> IF acc.depth = 1 THEN go("normal")
                                   ELSE [keep EXCEPT !.depth = @ - 1]
                   [] OTHER -> keep)

SplitCompoundCommands(command) ==
    LET start == [state |-> "normal", depth |-> 0, cur |-> << >>, out |-> << >>]
    IN Piece(FoldLeft(SplitToken, start, command)).out

(* extract_subshells: the bodies that open outside single quotes, and only *)
(* those that close; a body is skipped over, not searched.                 *)
Quoted(command, i) == Cardinality({j \in 1..(i - 1) : command[j] = "'"}) % 2 = 1
Nesting(command, i, j) ==
    Cardinality({k \in i..j : command[k] \in {"(", "$("}})
        - Cardinality({k \in i..j : command[k] = ")"})
Closes(command, i) ==
    IF command[i] = "$(" THEN {j \in (i + 1)..Len(command) : Nesting(command, i, j) = 0}
    ELSE {j \in (i + 1)..Len(command) : command[j] = "tick"}

ExtractSubshells(command) ==
    LET Least(S) == CHOOSE j \in S : \A k \in S : j <= k
        Step(acc, i) ==
            IF i < acc.from THEN acc
            ELSE CASE command[i] = "'" -> [acc EXCEPT !.quoted = ~@]
                   [] acc.quoted -> acc
                   [] command[i] \in {"$(", "tick"} /\ Closes(command, i) # {} ->
                        LET end == Least(Closes(command, i))
                        IN [acc EXCEPT !.from = end + 1,
                                       !.out = Append(@, SubSeq(command, i + 1, end - 1))]
                   [] OTHER -> acc
    IN FoldLeft(Step, [from |-> 1, quoted |-> FALSE, out |-> << >>],
                [i \in 1..Len(command) |-> i]).out

(* extract_shell_c_arg: what follows the first wrapper, without one layer  *)
(* of quotes.  An argument that is one quote and nothing else starts and   *)
(* ends with it, and the slice between them ends before it starts: a panic.*)
Wrapped(command) ==
    LET wraps == {i \in 1..(Len(command) - 1) : command[i] = "sh -c"}
    IN IF wraps = {} THEN << >>
       ELSE SubSeq(command, 1 + CHOOSE i \in wraps : \A j \in wraps : i <= j, Len(command))

InQuotes(arg) == arg # << >> /\ arg[1] \in {"'", "\""} /\ Last(arg) = arg[1]
SlicePanics(command) == InQuotes(Wrapped(command)) /\ Len(Wrapped(command)) = 1

ExtractShellCArg(command) ==
    LET arg == Wrapped(command)
        bare == IF InQuotes(arg) THEN SubSeq(arg, 2, Len(arg) - 1) ELSE arg
    IN IF bare = << >> THEN << >> ELSE <<bare>>

Inner(fragment) == ExtractSubshells(fragment) \o ExtractShellCArg(fragment)
-----------------------------------------------------------------------------
(* normalize_command: the first word, the flags of the words with a dash   *)
(* (long ones through long_flag_map), the other words.                     *)
LongFlagMap(base) ==
    CASE base = "rm" -> [f \in {"--recursive", "--force"} |-> IF f = "--force" THEN "f" ELSE "r"]
      [] base \in {"chmod", "chown"} -> [f \in {"--recursive"} |-> "R"]
      [] OTHER -> [f \in {} |-> "r"]
ShortFlags == [t \in {"-r", "-f", "-rf"} |->
                 CASE t = "-r" -> {"r"} [] t = "-f" -> {"f"} [] t = "-rf" -> {"r", "f"}]

NormalizeCommand(command) ==
    LET base == IF command = << >> THEN "" ELSE command[1]
        rest == {command[i] : i \in 2..Len(command)}
        long == LongFlagMap(base)
    IN [base |-> base,
        flags |-> UNION {ShortFlags[t] : t \in rest \cap DOMAIN ShortFlags}
                    \cup {long[t] : t \in rest \cap DOMAIN long},
        args |-> rest \ (DOMAIN ShortFlags \cup DOMAIN long)]

(* check_docker_escape: the words of it that count, mounts among them.     *)
CheckDockerEscape(words) == {"docker", "--privileged"} \subseteq words

(* check_dangerous: denied whatever the configuration says.                *)
CheckDangerous(command) ==
    LET n == NormalizeCommand(command)
        words == Range(command)
    IN \/ "mkfs." \in words
       \/ n.base = "rm" /\ {"r", "f"} \subseteq n.flags /\ "/" \in n.args
       \/ n.base = "chmod" /\ n.flags \cap {"r", "R"} # {} /\ {"777", "/"} \subseteq n.args
       \/ n.base = "chown" /\ n.flags \cap {"r", "R"} # {} /\ "/" \in n.args
       \/ CheckDockerEscape(words)

(* evaluate_single: deny, dangerous, approval, allow, and else approval.   *)
Matches(patterns, command) == command[1] \in patterns
EvaluateSingle(command) ==
    CASE Matches(policy.deny, command) -> "deny"
      [] CheckDangerous(command) -> "deny"
      [] Matches(policy.ask, command) -> "ask"
      [] Matches(policy.allow, command) -> "allow"
      [] OTHER -> "ask"

(* Slips: the last judgement stands; `..` always takes the component       *)
(* before it.                                                              *)
MergeDecisions_last(current, new) == new

MergeDecisions(current, new) ==
    IF "deny" \in {current, new} THEN "deny"
    ELSE IF "ask" \in {current, new} THEN "ask" ELSE "allow"

(* has_variable_expansion *)
HasVariableExpansion(command) ==
    \E i \in 1..Len(command) : command[i] = "$v" /\ ~Quoted(command, i)

Suspicious(command) == NormalizeCommand(command).base \in {"eval", "source"}
-----------------------------------------------------------------------------
(* normalize_components: `.` and empty components go, `..` takes the one   *)
(* before it, stays at the front of a relative path, and is nothing at the *)
(* root.                                                                   *)
IsAbs(path) == path # << >> /\ path[1] = ""
\* a slip: mutated form of NormalizeComponents
NormalizeComponents_pops(path) ==
    LET Step(out, c) ==
            CASE c \in {"", "."} -> out
              [] c = ".." -> IF out = << >> THEN out ELSE Front(out)
              [] OTHER -> Append(out, c)
    IN FoldLeft(Step, << >>, path)

NormalizeComponents(path) ==
    LET Step(out, c) ==
            CASE c \in {"", "."} -> out
              [] c = ".." /\ out # << >> /\ Last(out) # ".." -> Front(out)
              [] c = ".." /\ IsAbs(path) -> out
              [] OTHER -> Append(out, c)
    IN FoldLeft(Step, << >>, path)

(* is_within *)
IsWithin(target, dir) == IsPrefix(dir, target)

(* denied_by_pattern: the patterns are file names here.                    *)
DeniedByPattern(path) ==
    LET n == NormalizeComponents(path)
    IN n # << >> /\ Last(n) \in contract.deny

EvaluateFileRead(path) == IF DeniedByPattern(path) THEN "denied" ELSE "approved"
EvaluateFileWrite(path) ==
    CASE DeniedByPattern(path) -> "denied"
      [] \E dir \in contract.dirs :
            IsWithin(NormalizeComponents(path), NormalizeComponents(dir)) -> "approved"
      [] OTHER -> "human"
-----------------------------------------------------------------------------
Init ==
    /\ policy \in Policies
    /\ contract \in Contracts
    /\ intention \in Intentions
    /\ pc = "start"
    /\ queue = << >>
    /\ seen = {}
    /\ fragments = << >>
    /\ next = 1
    /\ worst = "allow"
    /\ verdict = "none"

Decide(v) == pc' = "done" /\ verdict' = v

(* ContractEngine::evaluate for everything that is not a shell command.    *)
EvaluateOther ==
    /\ pc = "start" /\ intention.kind # "execute_shell_command"
    /\ Decide(CASE intention.kind = "read_file" -> EvaluateFileRead(intention.path)
                [] intention.kind = "write_file" -> EvaluateFileWrite(intention.path)
                [] intention.kind = "spawn_sub_agent" -> "human"
                [] OTHER -> "approved")
    /\ UNCHANGED <<policy, contract, intention, queue, seen, fragments, next, worst>>

(* PolicyEngine::evaluate: a disabled policy asks a human about everything.*)
EvaluateShell ==
    /\ pc = "start" /\ intention.kind = "execute_shell_command"
    /\ IF policy.enabled
       THEN /\ pc' = "collect"
            /\ queue' = <<[command |-> intention.command, depth |-> 0]>>
            /\ UNCHANGED verdict
       ELSE Decide("human") /\ UNCHANGED queue
    /\ UNCHANGED <<policy, contract, intention, seen, fragments, next, worst>>

(* One command of the work queue.                                          *)
Collect ==
    LET top == Last(queue)
        Add(acc, sub) ==
            IF sub \in acc.seen THEN acc
            ELSE LET met == acc.seen \cup {sub}
                     new == SelectSeq(Inner(sub), LAMBDA b : b \notin met)
                 IN [seen |-> met, result |-> Append(acc.result, sub),
                     queue |-> acc.queue \o
                        [i \in 1..Len(new) |-> [command |-> new[i], depth |-> top.depth + 1]]]
        Whole(acc, cmd) ==
            IF cmd \in acc.seen THEN acc
            ELSE [acc EXCEPT !.seen = @ \cup {cmd}, !.result = Append(@, cmd)]
        before == [seen |-> seen, result |-> fragments, queue |-> Front(queue)]
        after == IF top.depth >= MaxFragmentDepth THEN Whole(before, top.command)
                 ELSE FoldLeft(Add, before, SplitCompoundCommands(top.command))
        panics == /\ top.depth < MaxFragmentDepth
                  /\ \E f \in Range(SplitCompoundCommands(top.command)) \ seen : SlicePanics(f)
    IN /\ pc = "collect" /\ queue # << >>
       /\ pc' = IF panics THEN "panicked" ELSE pc
       /\ seen' = after.seen
       /\ fragments' = after.result
       /\ queue' = after.queue
       /\ UNCHANGED <<policy, contract, intention, next, worst, verdict>>

Collected ==
    /\ pc = "collect" /\ queue = << >>
    /\ pc' = "judge"
    /\ UNCHANGED <<policy, contract, intention, queue, seen, fragments, next, worst, verdict>>

(* One fragment: the first denial ends it.  An empty one is passed over.   *)
JudgeFragment ==
    LET f == fragments[next]
        merged == IF f = << >> THEN worst ELSE MergeDecisions(worst, EvaluateSingle(f))
    IN /\ pc = "judge" /\ next <= Len(fragments)
       /\ worst' = merged
       /\ next' = next + 1
       /\ IF merged = "deny" THEN Decide("denied") ELSE UNCHANGED <<pc, verdict>>
       /\ UNCHANGED <<policy, contract, intention, queue, seen, fragments>>

(* The checks on the whole command, and the verdict.                       *)
Conclude ==
    LET asks == \/ HasVariableExpansion(intention.command)
                \/ \E f \in Range(fragments) : Suspicious(f)
                \/ Range(fragments) \subseteq {<< >>}
    IN /\ pc = "judge" /\ next > Len(fragments)
       /\ Decide(IF asks \/ worst = "ask" THEN "human" ELSE "approved")
       /\ UNCHANGED <<policy, contract, intention, queue, seen, fragments, next, worst>>

Next == EvaluateOther \/ EvaluateShell \/ Collect \/ Collected \/ JudgeFragment \/ Conclude
Spec == Init /\ [][Next]_vars
-----------------------------------------------------------------------------
TypeOK ==
    /\ policy \in Policies /\ contract \in Contracts
    /\ pc \in {"start", "collect", "judge", "done", "panicked"}
    /\ \A i \in DOMAIN queue : queue[i].depth \in 0..MaxFragmentDepth
    /\ Range(fragments) = seen /\ IsInjective(fragments)
    /\ next \in 1..(Len(fragments) + 1)
    /\ worst \in {"allow", "ask", "deny"}
    /\ verdict \in {"none", "approved", "human", "denied"}
    /\ (pc = "done") <=> (verdict # "none")

(* The fragments a command has, as the code takes commands apart, which is *)
(* not a shell's grammar: its sub-commands, and those of everything nested *)
(* in them, down to the depth limit.                                       *)
Nested[d \in 0..MaxFragmentDepth] ==
    IF d = 0 THEN {intention.command}
    ELSE UNION {UNION {Range(Inner(f)) : f \in Range(SplitCompoundCommands(c))} : c \in Nested[d - 1]}
AllFragments ==
    UNION {Range(SplitCompoundCommands(c)) : c \in UNION {Nested[d] : d \in 0..(MaxFragmentDepth - 1)}}
        \cup Nested[MaxFragmentDepth]

(* The work queue, the set of fragments already met and the early end do   *)
(* not change the verdict: a command is approved only when the policy      *)
(* allows every fragment the extractors find nested in it, and denied      *)
(* exactly when it denies one (PolicyEngine::evaluate,                     *)
(* collect_all_fragments).                                                 *)
WorstFragmentDecides ==
    verdict # "none" /\ intention.kind = "execute_shell_command" /\ policy.enabled =>
        LET judged == {EvaluateSingle(f) : f \in AllFragments \ {<< >>}}
        IN /\ (verdict = "denied") <=> ("deny" \in judged)
           /\ verdict = "approved" => judged = {"allow"}

(* Where a path leads from a directory, component by component.            *)
Walk(cwd, path) ==
    LET Step(at, c) == CASE c \in {"", "."} -> at
                         [] c = ".." -> IF at = << >> THEN at ELSE Front(at)
                         [] OTHER -> Append(at, c)
    IN FoldLeft(Step, IF IsAbs(path) THEN << >> ELSE cwd, path)
Deep == <<"u", "v", "w", "x">>

(* A write is approved without a human only inside an allowed directory,   *)
(* wherever `.` and `..` stand in its path: said of the directories that   *)
(* are spelled like the path (both absolute or both relative) and lead     *)
(* down (normalize_components and is_within under evaluate_file_write).    *)
ApprovedWithin ==
    \A dir \in contract.dirs :
        LET n == NormalizeComponents(dir)
            p == intention.path
        IN /\ verdict = "approved" /\ intention.kind = "write_file"
           /\ n # << >> /\ ".." \notin Range(n) /\ IsAbs(dir) = IsAbs(p)
           /\ IsWithin(NormalizeComponents(p), n)
           => IsPrefix(Walk(Deep, dir), Walk(Deep, p))

Judged == WorstFragmentDecides /\ ApprovedWithin

=============================================================================
