---------------------------- MODULE CodeCleanup ----------------------------
(***************************************************************************)
(* The text clean-up at the end of DaCeCodeGenerator.generate_code         *)
(* (framecode.py:991-1015): one pass over the lines of the generated code  *)
(* that drops blank lines and lines starting with ';', drops every marked *)
(* label no goto names, and drops a goto together with the label right    *)
(* after it when that goto is the label's only one.                        *)
(*                                                                         *)
(* A line is a record: [k |-> "blank"], [k |-> "semi"], a statement        *)
(* [k |-> "stmt", v |-> s], a jump [k |-> "goto", v |-> l] ("goto l;")     *)
(* or a marked label [k |-> "label", v |-> l] ("l: ////...").              *)
(***************************************************************************)
EXTENDS Naturals, Sequences, SequencesExt, FiniteSets

CONSTANTS
    Stmts,      \* statements, told apart by what they do
    Labels,     \* label names
    MaxLines,   \* most lines of one generated code
    MaxOut      \* statements of an execution compared

VARIABLES
    code,       \* generated_code, split into lines
    i,          \* index of the next line of the loop
    clean,      \* clean_code, as lines
    lastLine    \* last_line: the last line appended, or Empty

vars == <<code, i, clean, lastLine>>

Empty == [k |-> "empty"]
Line == {[k |-> "blank"], [k |-> "semi"]}
        \cup [k: {"stmt"}, v: Stmts] \cup [k: {"goto", "label"}, v: Labels]

\* gotos / goto_ctr: the jumps of the whole code to label l.
GotoCount(c, l) == Cardinality({j \in DOMAIN c : c[j] = [k |-> "goto", v |-> l]})

\* Generated code as the emitter produces it: each label at most once.
Codes ==
    {c \in BoundedSeq(Line, MaxLines) :
        \A a, b \in DOMAIN c : c[a].k = "label" /\ c[a] = c[b] => a = b}

-----------------------------------------------------------------------------
(* What the code does when it runs: the first MaxOut statements executed   *)
(* and how it ends ("exit", "more" statements follow, a "silent" loop      *)
(* that executes no statement, or a jump to an "undefined" label).         *)

RECURSIVE Run(_, _, _, _)
Run(c, pc, out, idle) ==
    IF Len(out) = MaxOut THEN [out |-> out, end |-> "more"]
    ELSE IF pc > Len(c) THEN [out |-> out, end |-> "exit"]
    ELSE IF idle > Len(c) THEN [out |-> out, end |-> "silent"]
    ELSE IF c[pc].k = "stmt" THEN Run(c, pc + 1, Append(out, c[pc].v), 0)
    ELSE IF c[pc].k = "goto"
    THEN IF \E j \in DOMAIN c : c[j] = [k |-> "label", v |-> c[pc].v]
         THEN Run(c, CHOOSE j \in DOMAIN c : c[j] = [k |-> "label", v |-> c[pc].v],
                  out, idle + 1)
         ELSE [out |-> out, end |-> "undefined"]
    ELSE Run(c, pc + 1, out, idle + 1)

Execution(c) == Run(c, 1, <<>>, 0)

-----------------------------------------------------------------------------

Init ==
    /\ code \in Codes
    /\ i = 1
    /\ clean = <<>>
    /\ lastLine = Empty

\* Mutant: the skip also steps over the line after the blank one.
SkipBlankPastNext ==
    /\ i <= Len(code)
    /\ code[i].k \in {"blank", "semi"}
    /\ i' = i + 2
    /\ UNCHANGED <<code, clean, lastLine>>

\* Empty line, or a line starting with ';': skipped.
SkipBlank ==
    /\ i <= Len(code)
    /\ code[i].k \in {"blank", "semi"}
    /\ i' = i + 1
    /\ UNCHANGED <<code, clean, lastLine>>

\* A label no goto names: dropped, and last_line forgotten.
DropUnusedLabel ==
    /\ i <= Len(code)
    /\ code[i].k = "label"
    /\ GotoCount(code, code[i].v) = 0
    /\ lastLine' = Empty
    /\ i' = i + 1
    /\ UNCHANGED <<code, clean>>

\* Mutant: the pair is collapsed whatever the number of jumps to the label.
CollapseAnyCount ==
    /\ i <= Len(code)
    /\ code[i].k = "label"
    /\ GotoCount(code, code[i].v) > 0
    /\ lastLine = [k |-> "goto", v |-> code[i].v]
    /\ clean' = Front(clean)
    /\ lastLine' = Empty
    /\ i' = i + 1
    /\ UNCHANGED code

\* "goto l;" right before "l:", and the label's only jump: both dropped.
CollapseGotoLabel ==
    /\ i <= Len(code)
    /\ code[i].k = "label"
    /\ GotoCount(code, code[i].v) = 1
    /\ lastLine = [k |-> "goto", v |-> code[i].v]
    /\ clean' = Front(clean)
    /\ lastLine' = Empty
    /\ i' = i + 1
    /\ UNCHANGED code

\* Any other line is kept: clean_code += line; last_line = line.
KeepLine ==
    /\ i <= Len(code)
    /\ code[i].k \notin {"blank", "semi"}
    /\ code[i].k = "label" =>
          /\ GotoCount(code, code[i].v) > 0
          /\ ~(lastLine = [k |-> "goto", v |-> code[i].v]
               /\ GotoCount(code, code[i].v) = 1)
    /\ clean' = Append(clean, code[i])
    /\ lastLine' = code[i]
    /\ i' = i + 1
    /\ UNCHANGED code

\* The loop has seen every line.
Done ==
    /\ i > Len(code)
    /\ UNCHANGED vars

Next == SkipBlank \/ DropUnusedLabel \/ CollapseGotoLabel \/ KeepLine \/ Done

Spec == Init /\ [][Next]_vars

-----------------------------------------------------------------------------

TypeOK ==
    /\ code \in Codes
    /\ i \in 1..(Len(code) + 1)
    /\ clean \in Seq(Line)
    /\ lastLine \in Line \cup {Empty}

\* Spec section 4.2 (g): the clean-up is textual hygiene, not a semantic
\* change.  Once the loop is done, the cleaned code executes the same
\* statements in the same order and ends the same way as the code did.
CleanupPreservesExecution ==
    i > Len(code) => Execution(clean) = Execution(code)
=============================================================================
