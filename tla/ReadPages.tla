----------------------------- MODULE ReadPages -----------------------------
(***************************************************************************)
(* The read tool (tools/read.py): a model reads a file page by page, each  *)
(* page starting where the last one told it to, while another process may  *)
(* append to the file.                                                     *)
(*                                                                         *)
(* A line is its length and how it ends: "newline" (whatever universal     *)
(* newlines turn into one), "other" (a form feed, a Unicode separator: a   *)
(* line end for str.splitlines, not for body.count) or "none" (the last    *)
(* line of a file without a final newline).                                *)
(***************************************************************************)
EXTENDS Integers, Sequences, FiniteSets, SequencesExt

CONSTANTS
    Files,          \* files to start with, sequences of lines
    Tails,          \* lines that may be appended
    MaxLines,       \* bound: length a file grows to
    Offsets,        \* first offsets a model asks for
    Limits,         \* limits a model asks for
    MaxLimit,       \* max_limit, lines of a page
    MaxOutput       \* max_output, characters of a page

Line == [len : Nat \ {0}, ends : {"newline", "other", "none"}]

\* What the constants are.
ReadPagesAssumption ==
    /\ Files \subseteq Seq(Line) /\ Tails \subseteq Line
    /\ MaxLines \in Nat
    /\ Offsets \subseteq Int /\ Limits \subseteq Int
    /\ MaxLimit \in Nat \ {0} /\ MaxOutput \in Nat \ {0}

VARIABLES
    file,
    limit,          \* the limit the reader asks for
    start,          \* history: the line the reading started from
    shown,          \* history: lines some page has shown in full
    page            \* the last result

vars == <<file, limit, start, shown, page>>

Nowhere == -1                           \* no offset to continue with
NoPage == [kind |-> "none", from |-> 0, total |-> 0, full |-> {}, next |-> Nowhere]

Init ==
    /\ file \in Files
    /\ limit \in Limits
    /\ start = 0 /\ shown = {}
    /\ page = NoPage

-----------------------------------------------------------------------------

\* Characters of the lines after the first from ones, up to line upto.
Chars(from, upto) ==
    FoldLeft(LAMBDA n, line : n + line.len, 0, SubSeq(file, from + 1, upto))

Offset(offset) == IF offset < 0 THEN 0 ELSE offset

\* Mutant: 0 asks for no lines instead of the default.
LimitAsGiven == IF limit < 0 THEN 0 ELSE IF limit > MaxLimit THEN MaxLimit ELSE limit

\* 0 and less mean the default, more is clamped.
Limit == IF limit <= 0 \/ limit > MaxLimit THEN MaxLimit ELSE limit

EndOfFile == [kind |-> "failed", from |-> 0, total |-> Len(file), full |-> {}, next |-> Nowhere]

\* Mutant: a page that was cut off continues after its last line all the same.
ContinueAfterWindow(from, upto) == upto

\* Where a page that was cut off tells to continue: after the lines whose
\* newline is in it.
ContinueAt(from, upto) ==
    from + Cardinality({i \in from + 1 .. upto :
                           file[i].ends = "newline" /\ Chars(from, i) <= MaxOutput})

\* The body of read.
Page(offset) ==
    LET from == Offset(offset)
        total == Len(file)
        upto == IF from + Limit < total THEN from + Limit ELSE total
    IN  IF from >= total THEN EndOfFile
        ELSE [kind |-> "page",
              from |-> from,
              total |-> total,
              full |-> {i \in from + 1 .. upto : Chars(from, i) <= MaxOutput},
              next |-> IF Chars(from, upto) > MaxOutput THEN ContinueAt(from, upto)
                       ELSE IF upto < total THEN upto
                       ELSE Nowhere]

-----------------------------------------------------------------------------

\* The model's first call.
Open ==
    /\ page.kind = "none"
    /\ \E offset \in Offsets :
          /\ page' = Page(offset)
          /\ start' = Offset(offset)
    /\ shown' = page'.full
    /\ UNCHANGED <<file, limit>>

\* It goes on where the note tells it to.
Follow ==
    /\ page.next # Nowhere
    /\ page' = Page(page.next)
    /\ shown' = shown \cup page'.full
    /\ UNCHANGED <<file, limit, start>>

\* A command that still runs appends to the file, line by line.
Grow ==
    /\ Len(file) < MaxLines
    /\ \A i \in DOMAIN file : file[i].ends # "none"
    /\ \E line \in Tails : file' = Append(file, line)
    /\ UNCHANGED <<limit, start, shown, page>>

Done ==
    /\ page.kind # "none" /\ page.next = Nowhere
    /\ UNCHANGED vars

Next == Open \/ Follow \/ Grow \/ Done

Spec == Init /\ [][Next]_vars /\ WF_vars(Open) /\ WF_vars(Follow)

-----------------------------------------------------------------------------
(* Properties.                                                             *)

(***************************************************************************)
(* A reader who follows the notes misses nothing: whatever lies before the *)
(* offset to continue with was shown in full, and a page without such an   *)
(* offset leaves nothing behind of the file as it was then - although the  *)
(* page is cut by lines, then by characters, and continued by counting     *)
(* newlines.                                                               *)
(***************************************************************************)
NothingSkipped ==
    page.kind = "page" =>
        start + 1 .. (IF page.next = Nowhere THEN page.total ELSE page.next) \subseteq shown

\* A file the tool is made for: newlines at the end of lines that fit a page.
Suited ==
    \A i \in DOMAIN file : file[i].len <= MaxOutput /\ file[i].ends # "other"

(***************************************************************************)
(* Following the notes comes to an end in every file of ordinary lines:    *)
(* no page sends the reader to where it just was.                          *)
(***************************************************************************)
ReadingEnds ==
    [](page.next # Nowhere => Suited) => <>(page.kind # "none" /\ page.next = Nowhere)

-----------------------------------------------------------------------------
(* What the repository says of the program and the code does not do.       *)

(***************************************************************************)
(* "the result reports the offset to continue from": lines are numbered    *)
(* by splitlines, but a cut-off page counts newlines only, so a page of    *)
(* lines that end otherwise sends the reader back to its own start.        *)
(***************************************************************************)
ContinuesAfterWhatWasShown ==
    page.next # Nowhere /\ page.full # {} => page.next >= page.from + Cardinality(page.full)

=============================================================================
