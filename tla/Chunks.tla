------------------------------- MODULE Chunks -------------------------------
(***************************************************************************)
(* From an object to its chunks (vector/chunker.py, and the resolving of a *)
(* text in content_sources/generic.py): the fields of a fragment are put   *)
(* together and packed greedily by paragraphs, the entries of a log go     *)
(* into windows fixed by their index.  A sweep compares the chunks of an   *)
(* object, by their hashes, with those it has stored: what keeps its text  *)
(* is not embedded again.                                                  *)
(*                                                                         *)
(* A text is what clean_text leaves of it: paragraphs of sentences, a      *)
(* sentence being its length.  A letter is known by its place: the field,  *)
(* the paragraph, the sentence and the position.                           *)
(***************************************************************************)
EXTENDS Integers, SequencesExt

CONSTANTS
  FieldOrder,    \* the fields of the fragment, as the configuration lists them
  TextsOf,       \* per field: the texts it may hold
  EntryLengths,  \* the lengths of log entries
  Budget,        \* max_chunk_tokens * CHARS_PER_TOKEN
  PerWindow,     \* log_entries_per_chunk
  MaxEntries     \* bound on the entries of the log

ASSUME ChunksAssumption ==
  /\ {Budget, PerWindow, MaxEntries} \subseteq Nat \ {0}
  /\ EntryLengths \subseteq Nat \ {0}
  /\ FieldOrder \in Seq(ToSet(FieldOrder))
  /\ \A f \in ToSet(FieldOrder) : <<>> \in TextsOf[f] /\ TextsOf[f] \subseteq Seq(Seq(Nat \ {0}))

VARIABLES
  text,  \* per field: its text
  log    \* the lengths of the entries, oldest first

chunksVars == <<text, log>>

ChunksTypeOK ==
  /\ \A f \in ToSet(FieldOrder) : text[f] \in TextsOf[f]
  /\ log \in Seq(EntryLengths)

ChunksInit ==
  /\ text = [f \in ToSet(FieldOrder) |-> <<>>]
  /\ log = <<>>

-----------------------------------------------------------------------------
(* The text of a fragment. *)

Paragraph == "\n\n"
Space == " "
Width(separator) == IF separator = Paragraph THEN 2 ELSE 1

\* A stretch of text: its letters, and its length with the blanks inside.
NoText == [letters |-> <<>>, length |-> 0]

\* f"{a}{separator}{b}" if a else b
Joined(a, separator, b) ==
  IF a = NoText THEN b
  ELSE [letters |-> a.letters \o b.letters,
        length |-> a.length + Width(separator) + b.length]

JoinAll(parts, separator) ==
  FoldLeft(LAMBDA a, b : Joined(a, separator, b), NoText, parts)

Sentence(f, p, s) ==
  [letters |-> [i \in 1 .. text[f][p][s] |-> <<f, p, s, i>>], length |-> text[f][p][s]]

\* _resolve: the paragraphs of the fields that are not empty, one field after
\* the other; each is the sequence of its sentences.
Resolved ==
  FlattenSeq([n \in DOMAIN FieldOrder |->
    LET f == FieldOrder[n]
    IN  [p \in DOMAIN text[f] |-> [s \in DOMAIN text[f][p] |-> Sentence(f, p, s)]]])

WholeText == JoinAll([p \in DOMAIN Resolved |-> JoinAll(Resolved[p], Space)], Paragraph)

-----------------------------------------------------------------------------
(* Splitting it. *)

\* An oversize sentence in slices of the budget.
Slices(sentence) ==
  [n \in 1 .. (sentence.length + Budget - 1) \div Budget |->
     LET slice == SubSeq(sentence.letters, (n - 1) * Budget + 1,
                         Min({n * Budget, sentence.length}))
     IN  [letters |-> slice, length |-> Len(slice)]]

\* _atoms: paragraphs, of an oversize one the sentences, of an oversize sentence
\* the slices.
Atoms ==
  LET AtomsOf(paragraph) ==
        LET whole == JoinAll(paragraph, Space)
        IN  IF whole.length <= Budget THEN <<whole>>
            ELSE FlattenSeq([s \in DOMAIN paragraph |->
                   IF paragraph[s].length <= Budget THEN <<paragraph[s]>>
                   ELSE Slices(paragraph[s])])
      paragraphs == Resolved
  IN  FlattenSeq([p \in DOMAIN paragraphs |-> AtomsOf(paragraphs[p])])

\* Mutant: the blank line between two atoms is not counted.
PackedTight(packing, atom) ==
  LET candidate == Joined(packing.current, Paragraph, atom)
  IN  IF packing.current.length + atom.length <= Budget
        THEN [packing EXCEPT !.current = candidate]
        ELSE [pieces |-> IF packing.current = NoText THEN packing.pieces
                         ELSE Append(packing.pieces, packing.current),
              current |-> atom]

\* The loop of split_text: an atom that fits joins the current piece.
Packed(packing, atom) ==
  LET candidate == Joined(packing.current, Paragraph, atom)
  IN  IF candidate.length <= Budget
        THEN [packing EXCEPT !.current = candidate]
        ELSE [pieces |-> IF packing.current = NoText THEN packing.pieces
                         ELSE Append(packing.pieces, packing.current),
              current |-> atom]

SplitText ==
  IF WholeText = NoText THEN <<>>
  ELSE IF WholeText.length <= Budget THEN <<WholeText>>
  ELSE LET packing == FoldLeft(Packed, [pieces |-> <<>>, current |-> NoText], Atoms)
       IN  IF packing.current = NoText THEN packing.pieces
           ELSE Append(packing.pieces, packing.current)

-----------------------------------------------------------------------------
(* The windows of the log. *)

ItemBudget == Max({Budget \div PerWindow, 1})

\* Windows are counted from 0, as a chunk's n is.
WindowCount(entries) == (Len(entries) + PerWindow - 1) \div PerWindow

\* _window_chunks: PerWindow entries by their index, each cut to its share.
Window(entries, n) ==
  [i \in 1 .. Min({PerWindow, Len(entries) - n * PerWindow}) |->
     Min({entries[n * PerWindow + i], ItemBudget})]

-----------------------------------------------------------------------------
(* What people do to the object in iTop. *)

EditField(f) ==
  /\ text' \in {[text EXCEPT ![f] = new] : new \in TextsOf[f]}
  /\ UNCHANGED log

AppendEntry ==
  /\ Len(log) < MaxEntries
  /\ \E length \in EntryLengths : log' = Append(log, length)
  /\ UNCHANGED text

ChunksNext == (\E f \in ToSet(FieldOrder) : EditField(f)) \/ AppendEntry

ChunksSpec == ChunksInit /\ [][ChunksNext]_chunksVars

-----------------------------------------------------------------------------
(* Properties. *)

\* The fewest pieces that the atoms can be packed into, in their order, none
\* over the budget.
FewestPieces ==
  LET atoms == Atoms
      n == Len(atoms)
      Fits(cuts) == \A i \in {1} \union cuts :
        LET later == {j \in cuts : j > i}
            last == IF later = {} THEN n ELSE Min(later) - 1
        IN  JoinAll(SubSeq(atoms, i, last), Paragraph).length <= Budget
  IN  Min({Cardinality(cuts) + 1 : cuts \in {c \in SUBSET (2 .. n) : Fits(c)}})

\* split_text "splits, never truncates": the pieces hold every letter of the text
\* in its order, none is empty or over the budget of the embedding model, and no
\* packing of the same atoms needs fewer.
PiecesKeepTheText ==
  LET pieces == SplitText
  IN  /\ FlattenSeq([n \in DOMAIN pieces |-> pieces[n].letters]) = WholeText.letters
      /\ \A n \in DOMAIN pieces : pieces[n].length \in 1 .. Budget
      /\ WholeText # NoText => Len(pieces) <= FewestPieces

\* An entry added to the log rewrites the last window and no other: every window
\* before it was there already, and stays as it was.
WindowsStand ==
  \A length \in EntryLengths :
    LET longer == Append(log, length)
    IN  \A n \in 0 .. WindowCount(longer) - 2 :
          /\ n < WindowCount(log)
          /\ Window(longer, n) = Window(log, n)

\* The windows hold every entry, cut to its share of the budget, in order.
WindowsHoldTheLog ==
  FlattenSeq([n \in 1 .. WindowCount(log) |-> Window(log, n - 1)])
    = [i \in DOMAIN log |-> Min({log[i], ItemBudget})]

\* The chunks of an object follow its content: its texts are cut without loss, and
\* old history keeps its chunks, and is not embedded again, when an entry is added.
ChunksFollowTheText == PiecesKeepTheText /\ WindowsStand /\ WindowsHoldTheLog
=============================================================================
