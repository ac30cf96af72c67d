------------------------------ MODULE MarkerBlocks ------------------------------
(***************************************************************************)
(* The blocks of docs/RESULTS.md: simulate and holdout, each for several   *)
(* profiles, render what lies between their own pair of markers, and check *)
(* it or (WRITE=yes) write it.  All of them rewrite the one file, each by  *)
(* reading the whole text, replacing its block and writing the whole text, *)
(* which first empties the file.  The author edits it beside them.         *)
(*                                                                         *)
(* A text is a sequence of lines; what a command renders is one line, and  *)
(* a line that a marker is found in is that marker.                        *)
(***************************************************************************)
EXTENDS Naturals, Sequences

CONSTANTS
    Blocks,
    Prose,       \* the author's lines
    Renderings,  \* what the commands may render
    Drafts,      \* the texts that the author may make of the file
    Writers,     \* the shells: each runs one command after the other
    NoBlock, NoLine

Begin(b) == <<"begin", b>>
End(b) == <<"end", b>>
Markers == {Begin(b) : b \in Blocks} \cup {End(b) : b \in Blocks}
TextLines == Prose \cup Renderings \cup Markers

Occurs(l, t) == \E k \in DOMAIN t : t[k] = l
FirstAt(l, t) == CHOOSE k \in DOMAIN t : t[k] = l /\ \A m \in 1..(k - 1) : t[m] # l

\* Each marker once, an end after its begin and nothing but lines in between.
WellFormed(t) ==
    /\ \A k, m \in DOMAIN t : t[k] = t[m] /\ t[k] \in Markers => k = m
    /\ \A b \in Blocks, k \in DOMAIN t : t[k] = Begin(b) =>
          \E m \in DOMAIN t : k < m /\ t[m] = End(b)
                              /\ \A n \in DOMAIN t : k < n /\ n < m => t[n] \notin Markers
    /\ \A b \in Blocks : Occurs(End(b), t) => Occurs(Begin(b), t)

\* The author adds each pair once (specs/phase-6-simulation.md).
ASSUME BlocksAssumption ==
    /\ Drafts \subseteq {t \in Seq(TextLines) : WellFormed(t)}
    /\ (Prose \cup Renderings) \cap Markers = {}
    /\ NoBlock \notin Seq(TextLines)

VARIABLES
    text,       \* docs/RESULTS.md
    at,         \* what each writer is at
    job,        \* the block of its command
    rendering,  \* what it has rendered
    base,       \* what write_block has read
    written,    \* history: each block as its last writer left it
    spoiled     \* history: a write was overtaken or killed; the author mends it

docVars == <<text, at, job, rendering, base, written, spoiled>>

-----------------------------------------------------------------------------
(* eval/blocks.py *)

HasPair(t, b) ==
    Occurs(Begin(b), t) /\ Occurs(End(b), t) /\ FirstAt(Begin(b), t) < FirstAt(End(b), t)

FindBlock(t, b) ==
    IF HasPair(t, b) THEN SubSeq(t, FirstAt(Begin(b), t) + 1, FirstAt(End(b), t) - 1) ELSE NoBlock

ReplaceToTheEnd(t, b, l) ==
    SubSeq(t, 1, FirstAt(Begin(b), t)) \o <<l, End(b)>>
ReplaceBlock(t, b, l) ==
    SubSeq(t, 1, FirstAt(Begin(b), t)) \o <<l>> \o SubSeq(t, FirstAt(End(b), t), Len(t))

-----------------------------------------------------------------------------
Ended == {"OK", "FAIL", "refused", "failed", "wrote", "killed"}

BlocksInit ==
    /\ text \in Drafts
    /\ at = [w \in Writers |-> "OK"]
    /\ job = [w \in Writers |-> NoBlock]
    /\ rendering = [w \in Writers |-> NoLine]
    /\ base = [w \in Writers |-> <<>>]
    /\ written = [b \in Blocks |-> FindBlock(text, b)]
    /\ spoiled = FALSE

Reach(w, p) == at' = [at EXCEPT ![w] = p] /\ UNCHANGED <<job, rendering, base>>

\* The process ends, and what it held is gone.
Leave(w, p) ==
    /\ at' = [at EXCEPT ![w] = p]
    /\ job' = [job EXCEPT ![w] = NoBlock]
    /\ rendering' = [rendering EXCEPT ![w] = NoLine]
    /\ base' = [base EXCEPT ![w] = <<>>]

\* A command of the arguments and the data of now, refused or rendered; with
\* WRITE=yes it goes on to find its block, without it to check it.
Render(w) ==
    /\ at[w] \in Ended
    /\ \/ Leave(w, "refused")
       \/ \E b \in Blocks, l \in Renderings, p \in {"check", "find"} :
             /\ at' = [at EXCEPT ![w] = p]
             /\ job' = [job EXCEPT ![w] = b]
             /\ rendering' = [rendering EXCEPT ![w] = l]
             /\ UNCHANGED base
    /\ UNCHANGED <<text, written, spoiled>>

Look(w) ==
    /\ at[w] \in {"check", "find"}
    /\ LET current == FindBlock(text, job[w])
       IN  \/ current = NoBlock /\ Leave(w, "refused")
           \/ current # NoBlock /\ at[w] = "find" /\ Reach(w, "read")
           \/ /\ current # NoBlock /\ at[w] = "check"
              /\ Leave(w, IF current = <<rendering[w]>> THEN "OK" ELSE "FAIL")
    /\ UNCHANGED <<text, written, spoiled>>

\* write_block reads the text again; replace_block raises without the pair.
ReadText(w) ==
    /\ at[w] = "read"
    /\ IF HasPair(text, job[w])
       THEN /\ base' = [base EXCEPT ![w] = text]
            /\ at' = [at EXCEPT ![w] = "truncate"]
            /\ UNCHANGED <<job, rendering>>
       ELSE Leave(w, "failed")
    /\ UNCHANGED <<text, written, spoiled>>

\* write_text opens the file, which empties it, and then writes.
Truncate(w) ==
    /\ at[w] = "truncate"
    /\ text' = <<>>
    /\ spoiled' = (spoiled \/ text # base[w])
    /\ Reach(w, "flush")
    /\ UNCHANGED written

\* What a write from the start of the file leaves of a longer text there.
WrittenOver(new, old) == new \o SubSeq(old, Len(new) + 1, Len(old))

Flush(w) ==
    /\ at[w] = "flush"
    /\ text' = WrittenOver(ReplaceBlock(base[w], job[w], rendering[w]), text)
    /\ written' = [written EXCEPT ![job[w]] = <<rendering[w]>>]
    /\ spoiled' = (spoiled \/ text # <<>>)
    /\ Leave(w, "wrote")

KillWriter(w) ==
    /\ at[w] \notin Ended
    /\ spoiled' = (spoiled \/ at[w] = "flush")
    /\ Leave(w, "killed")
    /\ UNCHANGED <<text, written>>

\* The author saves the file, or git restores it.
Author ==
    /\ text' \in Drafts
    /\ written' = [b \in Blocks |-> FindBlock(text', b)]
    /\ spoiled' = \E w \in Writers : at[w] = "flush"
    /\ UNCHANGED <<at, job, rendering, base>>

Command(w) == Render(w) \/ Look(w) \/ ReadText(w) \/ Truncate(w) \/ Flush(w) \/ KillWriter(w)
BlocksNext == (\E w \in Writers : Command(w)) \/ Author
BlocksSpec == BlocksInit /\ [][BlocksNext]_docVars

-----------------------------------------------------------------------------
(* Properties *)

\* The type of every variable; the file is empty or a text whose pairs are pairs,
\* whoever wrote it last, if nothing has spoiled it (eval/blocks.py).
BlocksTypeOK ==
    /\ text \in Seq(TextLines) /\ (~spoiled => WellFormed(text))
    /\ at \in [Writers -> Ended \cup {"check", "find", "read", "truncate", "flush"}]
    /\ job \in [Writers -> Blocks \cup {NoBlock}]
    /\ rendering \in [Writers -> Renderings \cup {NoLine}]
    /\ base \in [Writers -> Seq(TextLines)]
    /\ written \in [Blocks -> Seq(TextLines) \cup {NoBlock}]
    /\ spoiled \in BOOLEAN

MidWrite == \E w \in Writers : at[w] = "flush"

\* Every block of the file is what was last written there, by its command or by
\* the author: no command loses another one's block, unless a write was
\* overtaken or killed and nobody has mended the file since (write_block in
\* eval/blocks.py).
BlocksKept ==
    ~MidWrite /\ ~spoiled => \A b \in Blocks : FindBlock(text, b) = written[b]

\* The bytes between the markers are replaced and nothing else: what is before
\* and after them is as it was read, unless the file is no longer the empty one
\* that this write, or another, has made of it (replace_block in eval/blocks.py).
Beside(t, b) ==
    <<SubSeq(t, 1, FirstAt(Begin(b), t)), SubSeq(t, FirstAt(End(b), t), Len(t))>>
NothingElse ==
    [][\A w \in Writers : at[w] = "flush" /\ at'[w] = "wrote" /\ text = <<>> =>
          Beside(text', job[w]) = Beside(base[w], job[w])]_docVars
=============================================================================
