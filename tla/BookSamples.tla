----------------------------- MODULE BookSamples -----------------------------
(***************************************************************************)
(* opportunity_history.BookBuffer: the market thread offers synchronized      *)
(* quotes of the two legs of a path, the first of each five minutes is kept,   *)
(* and the history thread writes what waits into the daily files, part by      *)
(* part. A sample is the time of its older leg; prices, hours within a file,    *)
(* retention and what quote_metrics rejects are left out.                      *)
(***************************************************************************)
EXTENDS Integers, SequencesExt

CONSTANTS BookPaths,
          Bucket, DayLength,       \* 300 s, a day
          Behind, Ahead,           \* how old or early a sample may be: 4 s, 2 s
          BookLimit,               \* limit
          KnownLimit, KnownFor,    \* 4000 paths, 3600 s
          MaxBookTime, MaxBookLosses  \* bounds

ASSUME BookAssumption ==
  /\ {Bucket, DayLength, BookLimit} \subseteq Nat \ {0} /\ {Behind, Ahead, KnownLimit} \subseteq Nat
  /\ Bucket + Behind <= KnownFor

VARIABLES bookTime,
          waitingBooks,   \* pending, in the order of its insertions
          lastBucket,     \* last_bucket: of the paths it knows
          droppedBooks,   \* dropped
          copy,         \* persist: what it copied and has not yet written
          written,        \* persist: the part that was committed and is to leave the memory
          bookFile,       \* the daily files: the sample of each path and bucket
          accepted,          \* history: what this process accepted
          bookLosses

bookVars == <<bookTime, waitingBooks, lastBucket, droppedBooks, copy, written, bookFile, accepted,
              bookLosses>>

NoBooks == [p \in {} |-> 0]
BooksInit ==
  /\ bookTime = Behind /\ waitingBooks = <<>> /\ lastBucket = NoBooks /\ droppedBooks = 0
  /\ copy = {} /\ written = {} /\ bookFile = NoBooks /\ accepted = {} /\ bookLosses = 0

Samples(seq) == {seq[i] : i \in DOMAIN seq}
SlotOf(sample) == <<sample.path, sample.at \div Bucket>>
BookDay(sample) == sample.at \div DayLength

-----------------------------------------------------------------------------
\* A path forgotten is one that had no sample for an hour.
Remembered(known) ==
  IF Cardinality(DOMAIN known) <= KnownLimit THEN known
  ELSE Restrict(known, {p \in DOMAIN known : known[p] * Bucket >= bookTime - KnownFor})
IsNewBucket(p, bucket) == p \in DOMAIN lastBucket => lastBucket[p] < bucket
Overfull(seq) == Len(seq) > BookLimit
TakeBook(p) ==
  \E at \in bookTime - Behind .. bookTime + Ahead :
    LET sample == [path |-> p, at |-> at]
        next == Append(waitingBooks, sample)
    IN /\ IsNewBucket(p, at \div Bucket)
       /\ lastBucket' = Remembered(p :> (at \div Bucket) @@ lastBucket)
       /\ accepted' = accepted \cup {sample}
       /\ IF Overfull(next)
          THEN waitingBooks' = Tail(next) /\ droppedBooks' = droppedBooks + 1
          ELSE waitingBooks' = next /\ UNCHANGED droppedBooks
       /\ UNCHANGED <<bookTime, copy, written, bookFile, bookLosses>>

\* persist: a copy under the lock, then parts of one day each, committed without it.
CopyBooks ==
  /\ copy = {} /\ written = {} /\ waitingBooks # <<>> /\ copy' = Samples(waitingBooks)
  /\ UNCHANGED <<bookTime, waitingBooks, lastBucket, droppedBooks, written, bookFile, accepted, bookLosses>>
\* "First genuine observation per bucket survives restarts."
LatestOf(part) == [slot \in DOMAIN bookFile \cup {SlotOf(b) : b \in part} |->
  IF slot \in {SlotOf(b) : b \in part} THEN CHOOSE b \in part : SlotOf(b) = slot ELSE bookFile[slot]]
FirstOfBucket(part) == [slot \in DOMAIN bookFile \cup {SlotOf(b) : b \in part} |->
  IF slot \in DOMAIN bookFile THEN bookFile[slot] ELSE CHOOSE b \in part : SlotOf(b) = slot]
CommitBooks ==
  /\ written = {}
  /\ \E part \in SUBSET copy \ {{}} :
       /\ \A b, c \in part : BookDay(b) = BookDay(c)
       /\ bookFile' = FirstOfBucket(part) /\ copy' = copy \ part /\ written' = part
  /\ UNCHANGED <<bookTime, waitingBooks, lastBucket, droppedBooks, accepted, bookLosses>>
PoppedAll == <<>>
Staying == {b \in Samples(waitingBooks) : SlotOf(b) \notin {SlotOf(c) : c \in written}}
Popped ==
  LET left[n \in 0 .. Len(waitingBooks)] ==
        IF n = 0 THEN <<>>
        ELSE IF waitingBooks[n] \in Staying THEN Append(left[n - 1], waitingBooks[n]) ELSE left[n - 1]
  IN left[Len(waitingBooks)]
PopBooks ==
  /\ written # {} /\ waitingBooks' = Popped /\ written' = {}
  /\ UNCHANGED <<bookTime, lastBucket, droppedBooks, copy, bookFile, accepted, bookLosses>>

\* The disk is full or the file locked: the rest of the copy is left for the next round.
FailBooks ==
  /\ copy # {} /\ written = {} /\ bookLosses < MaxBookLosses /\ bookLosses' = bookLosses + 1
  /\ copy' = {}
  /\ UNCHANGED <<bookTime, waitingBooks, lastBucket, droppedBooks, written, bookFile, accepted>>
BooksDie ==
  /\ bookLosses < MaxBookLosses /\ bookLosses' = bookLosses + 1
  /\ waitingBooks' = <<>> /\ lastBucket' = NoBooks /\ droppedBooks' = 0
  /\ copy' = {} /\ written' = {} /\ accepted' = {}
  /\ UNCHANGED <<bookTime, bookFile>>
BookTicks ==
  /\ bookTime < MaxBookTime /\ bookTime' = bookTime + 1
  /\ UNCHANGED <<waitingBooks, lastBucket, droppedBooks, copy, written, bookFile, accepted, bookLosses>>

BooksNext == (\E p \in BookPaths : TakeBook(p)) \/ CopyBooks \/ CommitBooks \/ PopBooks
             \/ FailBooks \/ BooksDie \/ BookTicks

-----------------------------------------------------------------------------
\* What a process took is in the files, waits, or was counted as dropped, though it
\* takes on while parts are being written and some of the writing fails.
Unaccounted == {b \in accepted : SlotOf(b) \notin DOMAIN bookFile /\ b \notin Samples(waitingBooks)}
\* The evidence of a bucket is the first sample that was written for it and stays so,
\* whichever process comes later or tries again.
FirstStands == \A slot \in DOMAIN bookFile :
                 slot \in DOMAIN bookFile' /\ bookFile'[slot] = bookFile[slot]

\* Both hold of every step of the two threads and their restarts.
BooksAreKept == [][FirstStands /\ Cardinality(Unaccounted') <= droppedBooks']_bookVars
==============================================================================
