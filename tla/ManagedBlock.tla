---------------------------- MODULE ManagedBlock ----------------------------
(***************************************************************************)
(* The managed block of a native memory file: how export splices the       *)
(* believed facts into a Markdown file it does not own, and what import    *)
(* reads back from one. A file is a sequence of lines, abstracted to what  *)
(* either parser tells apart: the two sentinels, code fences (character,   *)
(* run length, info string), a line carrying a fact marker with its value, *)
(* a JSON proposal, blank lines and everything else ("prose"). Line        *)
(* endings, and the skip reasons import reports, are left out; so are      *)
(* redacted values, which no operation makes, and sources whose name holds *)
(* a line break, a sentinel or the head of a receipt comment.              *)
(***************************************************************************)
EXTENDS FactFold, SequencesExt

CONSTANTS
  NoSource,        \* the source of a proposal that names none
  SentinelValues,  \* texts that contain the END sentinel: encoding one
                   \* leaves `<` and `>` as they are
  JsonText,        \* for each value that is JSON, not text, its canonical text
  SourceWords      \* for each source, the words that `source=` and its name
                   \* make in a receipt comment

Plain(kind) == [kind |-> kind]
Fence(ch, run, info) == [kind |-> "fence", ch |-> ch, run |-> run, info |-> info]

\* A word of a receipt comment: the hint it gives, if any, and what it says.
Word(hint, says) == [hint |-> hint, says |-> says]

\* The receipt comment of a fact. The name of the source is printed as it is.
Receipt(level, source) == <<Word("authority", level)>> \o SourceWords[source]

\* A line with a marker, a value and the words of a receipt comment.
FactLine(shape, value, receipt) ==
  [kind |-> "fact", shape |-> shape, value |-> value, receipt |-> receipt]

JsonLine(proposal) == [kind |-> "json", proposal |-> proposal]

HasBegin(line) == line.kind = "begin"
HasEnd(line) == line.kind = "end" \/ (line.kind = "fact" /\ line.value \in SentinelValues)

-----------------------------------------------------------------------------
(* Export.                                                                 *)

NoFence == [ch |-> "none", run |-> 0]

\* A bare fence of the opener's character, at least as long, closes it.
AfterFence(open, line) ==
  IF open = NoFence THEN [ch |-> line.ch, run |-> line.run]
  ELSE IF line.ch = open.ch /\ line.run >= open.run /\ line.info = "" THEN NoFence ELSE open

\* The fence that is open after each line of a file.
OpenFence(file) ==
  LET open[n \in 0..Len(file)] ==
        IF n = 0 THEN NoFence
        ELSE IF file[n].kind = "fence" THEN AfterFence(open[n - 1], file[n]) ELSE open[n - 1]
  IN open

\* managed_block_sentinels: the sentinels outside every code fence.
Begins(file) == {i \in DOMAIN file : HasBegin(file[i]) /\ OpenFence(file)[i] = NoFence}
Ends(file) == {i \in DOMAIN file : HasEnd(file[i]) /\ OpenFence(file)[i] = NoFence}

\* render_managed_block, of facts that are already lines.
RenderBlock(facts) ==
  <<Plain("begin"), Plain("chrome")>>
    \o (IF facts = <<>> THEN <<Plain("blank"), Plain("chrome")>>
        ELSE <<Plain("blank"), Plain("chrome"), Plain("blank")>> \o facts)
    \o <<Plain("blank"), Plain("end")>>

\* The block of a file lies between its only pair of sentinels.
IsBlock(file, b, e) == Begins(file) = {b} /\ Ends(file) = {e} /\ b < e
HasBlock(file) == \E b, e \in DOMAIN file : IsBlock(file, b, e)

\* The lines before and after the block of a file that has one.
Before(file) == SubSeq(file, 1, (CHOOSE b \in Begins(file) : TRUE) - 1)
After(file) == SubSeq(file, (CHOOSE e \in Ends(file) : TRUE) + 1, Len(file))

Refuse == [ok |-> FALSE, file |-> <<>>]
Spliced(file) == [ok |-> TRUE, file |-> file]

\* A blank line, where a file that is appended to has none at its end.
Gap(file) == IF Last(file) = Plain("blank") THEN <<>> ELSE <<Plain("blank")>>

\* splice_managed_block: create, replace the one pair, refuse, or append. A
\* missing file is an empty one.
Splice(file, block) ==
  IF file = <<>> THEN Spliced(block)
  ELSE IF HasBlock(file) THEN Spliced(Before(file) \o block \o After(file))
  ELSE IF Begins(file) \cup Ends(file) # {} \/ OpenFence(file)[Len(file)] # NoFence THEN Refuse
  ELSE Spliced(file \o Gap(file) \o block)

-----------------------------------------------------------------------------
(* Import.                                                                 *)

Malformed == [op |-> "malformed"]

\* parse_meta_hints: of the words that give a hint, the last one counts.
MetaHint(words, hint, unsaid) ==
  LET given == {i \in DOMAIN words : words[i].hint = hint}
  IN IF given = {} THEN unsaid
     ELSE words[CHOOSE i \in given : \A j \in given : j <= i].says

\* decode_block_value: a quoted text is read back, JSON becomes a text.
DecodeBlockValue(value) == IF value \in DOMAIN JsonText THEN JsonText[value] ELSE value

\* parse_receipt_line and receipt_to_proposal_json: an assertion of a text, with
\* the hints of the line's receipt.
ReceiptProposal(line) ==
  [ op |-> "assert", shape |-> line.shape, value |-> DecodeBlockValue(line.value),
    level |-> MetaHint(line.receipt, "authority", NoLevel),
    source |-> MetaHint(line.receipt, "source", NoSource) ]

\* Mutant: a fence with a language after it is not taken for a fence.
BareTickToggles(fence, line) ==
  IF line.kind # "fence" \/ line.ch # "tick" \/ line.info # "" THEN fence
  ELSE IF fence = "none" THEN "other" ELSE "none"

\* Only backticks are fences to an import, and each of them is a toggle.
TickToggles(fence, line) ==
  IF line.kind # "fence" \/ line.ch # "tick" THEN fence
  ELSE IF fence # "none" THEN "none"
  ELSE IF line.info = "dent8" THEN "dent8" ELSE "other"

\* What a line adds to the proposals: sentinels are skipped even in a fence,
\* what is in a ```dent8 fence is a proposal as it stands, and every fact line
\* outside the fences is one too, in the managed block or not.
Proposals(fence, line) ==
  IF HasBegin(line) \/ HasEnd(line) \/ (line.kind = "fence" /\ line.ch = "tick") THEN <<>>
  ELSE IF fence = "dent8" /\ line.kind # "blank"
  THEN <<IF line.kind = "json" THEN line.proposal ELSE Malformed>>
  ELSE IF fence = "none" /\ line.kind = "fact" THEN <<ReceiptProposal(line)>>
  ELSE <<>>

ImportLine(s, line) ==
  [ fence |-> TickToggles(s.fence, line), found |-> s.found \o Proposals(s.fence, line) ]

\* parse_import_file: the proposals of a file.
ImportFile(file) ==
  LET s[n \in 0..Len(file)] ==
        IF n = 0 THEN [fence |-> "none", found |-> <<>>] ELSE ImportLine(s[n - 1], file[n])
  IN s[Len(file)].found

-----------------------------------------------------------------------------
(* What the properties are about.                                          *)

\* The lines the user owns: those outside the managed block, short of a blank
\* line at the end.
UserText(file) ==
  LET own == IF HasBlock(file) THEN Before(file) \o After(file) ELSE file
  IN IF own # <<>> /\ Last(own) = Plain("blank") THEN Front(own) ELSE own

\* A source of which a receipt keeps the name: no blank in it.
PlainName(source) == SourceWords[source] = <<Word("source", source)>>

\* Both parsers read the fences alike: three backticks, closers bare.
PlainFences(file) ==
  \A i \in DOMAIN file : file[i].kind = "fence" =>
    /\ file[i].ch = "tick" /\ file[i].run = 3
    /\ OpenFence(file)[i - 1] # NoFence => file[i].info = ""
=============================================================================
