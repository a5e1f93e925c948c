--------------------------- MODULE AuditLogProofs ---------------------------
(***************************************************************************)
(* Proofs about AuditLog, for any limits of size, age and backups and any  *)
(* number of entries, keys, crashes and faults.                            *)
(***************************************************************************)
EXTENDS AuditLog, TLAPS

Live == pc \notin {"off", "create", "open"}

(* A logger has a key, and so has rotate-key when it archives one; an      *)
(* entry half written is the last one.                                     *)
LoggerInv ==
    /\ pc \notin {"off", "create"} => kid # 0
    /\ pc \in {"newline", "sync"} => Len(log) > 0
    /\ rpc = "archive" => old # 0

(* Later entries lie in later files. *)
FilesInv == \A i, j \in 1..Len(log) : i < j => log[i].file <= log[j].file

(* An entry that is not the first of its logger is the successor of the    *)
(* one before it, if that was reported written ...                         *)
LinkInv ==
    \A i \in 1..Len(log) : ~log[i].first =>
        i > 1 /\ (log[i - 1].done => log[i].prev = i - 1)

(* ... because a logger that has written chains to the last entry.         *)
TailInv ==
    Live /\ ~fresh => Len(log) > 0 /\ (log[Len(log)].done => previous = Len(log))

(* What a logger skips when it takes up the chain of its file stays        *)
(* unreadable, before it writes its first entry ...                        *)
FreshInv ==
    Live /\ fresh =>
        \A j \in 1..Len(log) :
            j > previous /\ (previous # 0 \/ log[j].file = Current) => ~Readable(j)

(* ... and after.                                                          *)
FirstInv ==
    \A i, j \in 1..Len(log) :
        log[i].first /\ j < i /\ j > log[i].prev
            /\ (log[i].prev # 0 \/ SameFile(j, i)) => ~Readable(j)

(* Whatever has a key has one that is accounted for: rotate-key archives   *)
(* the key it has read before it sets a new one, and where there was a key *)
(* to begin with, that is the key in the keyring.                          *)
Accounted == archived \cup {key} \cup volatile \cup lost

KeyInv ==
    /\ \A i \in 1..Len(log) : log[i].kid \in Accounted
    /\ pc \notin {"off", "create"} => kid \in Accounted
    /\ rpc = "set" /\ old # 0 => old \in archived
    /\ ~bare =>
         /\ key # 0 /\ lost = {} /\ pc # "create"
         /\ rpc # "off" => old = key

Chain == FilesInv /\ LinkInv /\ TailInv /\ FreshInv /\ FirstInv

IInv == TypeOK /\ LoggerInv /\ Chain /\ KeyInv

ChainInv == TypeOK /\ LoggerInv /\ Chain

-----------------------------------------------------------------------------
LEMMA LogFacts ==
    ASSUME TypeOK
    PROVE  /\ Len(log) \in Nat /\ Current \in Nat \ {0} /\ made \in Nat
           /\ \A i \in 1..Len(log) :
                /\ log[i] \in Fragments /\ log[i].file \in Nat \ {0}
                /\ log[i].prev \in Nat /\ log[i].kid \in Nat
<1>1. Len(log) \in Nat /\ Current \in Nat \ {0} /\ made \in Nat
  BY DEF TypeOK, Current
<1>2. \A i \in 1..Len(log) : log[i] \in Fragments BY DEF TypeOK
<1> QED BY <1>1, <1>2 DEF Fragments

LEMMA Initially == Init => IInv
<1> SUFFICES ASSUME Init PROVE IInv OBVIOUS
<1>1. log = <<>> /\ Len(log) = 0 /\ written = <<0>> /\ Len(written) = 1 /\ Current = 1
  BY DEF Init, Current
<1>2. TypeOK
  <2>1. log \in Seq(Fragments) /\ written \in Seq(Nat) BY <1>1
  <2>2. archived \subseteq 1..made /\ bare \in BOOLEAN /\ kept = {} BY DEF Init
  <2>3. fresh \in BOOLEAN /\ lost = {} /\ volatile = {} BY DEF Init
  <2> QED BY <1>1, <2>1, <2>2, <2>3 DEF Init, TypeOK
<1>3. LoggerInv /\ Chain
  BY <1>1 DEF Init, LoggerInv, Chain, FilesInv, LinkInv, TailInv, FreshInv, FirstInv,
              Live
<1>4. KeyInv
  <2>1. ~bare => key # 0 BY DEF Init
  <2>2. lost = {} /\ pc = "off" /\ rpc = "off" BY DEF Init
  <2> QED BY <1>1, <2>1, <2>2 DEF KeyInv
<1> QED BY <1>2, <1>3, <1>4 DEF IInv

(* A step that leaves the entries and the files alone. *)
LEMMA EntriesKept ==
    ASSUME ChainInv, UNCHANGED <<log, written>>,
           Live' => Live /\ previous' = previous /\ fresh' = fresh
    PROVE  Chain'
<1> USE DEF ChainInv, Chain
<1>1. FilesInv' BY DEF FilesInv
<1>2. LinkInv' BY DEF LinkInv
<1>3. TailInv' BY DEF TailInv
<1>4. FreshInv' BY DEF FreshInv, Readable, SameFile, Current
<1>5. FirstInv' BY DEF FirstInv, Readable, SameFile
<1> QED BY <1>1, <1>2, <1>3, <1>4, <1>5

(* Another entry can make the one before it unreadable, not readable. *)
LEMMA Extended ==
    ASSUME ChainInv, NEW w \in BOOLEAN, Extend(w), Live, kid # 0,
           UNCHANGED <<previous, kid, made>>
    PROVE  /\ Len(log') = Len(log) + 1 /\ Len(written') = Len(written)
           /\ \A i \in 1..Len(log) : log'[i] = log[i]
           /\ log'[Len(log) + 1].kid = kid
           /\ log' \in Seq(Fragments) /\ written' \in Seq(Nat)
           /\ \A i \in 1..Len(log') :
                log'[i].file <= Current' /\ log'[i].prev < i /\ log'[i].kid \in 1..made'
           /\ Chain'
<1> USE DEF ChainInv, TypeOK
<1> DEFINE n == Len(log)
           e == [file |-> Current, prev |-> previous, kid |-> kid,
                 whole |-> w, newline |-> FALSE, done |-> FALSE, first |-> fresh]
<1>0. n \in Nat /\ Current \in Nat \ {0} /\ e \in Fragments
  BY DEF Current, Fragments
<1>1. /\ log' = Append(log, e) /\ Len(log') = n + 1
      /\ \A i \in 1..n : log'[i] = log[i]
      /\ log'[n + 1] = e /\ log' \in Seq(Fragments)
      /\ e.file = Current /\ e.prev = previous /\ e.kid = kid /\ e.first = fresh
      /\ ~e.done
  BY <1>0 DEF Extend
<1>2. written' \in Seq(Nat) /\ Len(written') = Len(written) /\ Current' = Current
  BY <1>0 DEF Extend, Current
<1>3. \A i \in 1..n : Readable(i)' => Readable(i)
  BY <1>0, <1>1 DEF Readable, SameFile
<1>4. \A i \in 1..n + 1 :
        log'[i].file <= Current' /\ log'[i].prev < i /\ log'[i].kid \in 1..made'
  BY <1>0, <1>1, <1>2
<1>p. Chain /\ previous \in 0..n /\ \A i \in 1..n : log[i].file <= Current OBVIOUS
<1> HIDE DEF e, ChainInv, TypeOK
<1>5. FilesInv'
  <2> SUFFICES ASSUME NEW i \in 1..n + 1, NEW j \in 1..n + 1, i < j
               PROVE  log'[i].file <= log'[j].file
    BY <1>1 DEF FilesInv
  <2>1. CASE j = n + 1 BY <2>1, <1>0, <1>1, <1>p
  <2>2. CASE j # n + 1
    <3>1. i \in 1..n /\ j \in 1..n BY <2>2, <1>0
    <3>2. log'[i] = log[i] /\ log'[j] = log[j] BY <3>1, <1>1
    <3>3. log[i].file <= log[j].file BY <1>p, <3>1 DEF FilesInv, Chain
    <3> QED BY <3>2, <3>3
  <2> QED BY <2>1, <2>2
<1>6. LinkInv'
  <2> SUFFICES ASSUME NEW i \in 1..n + 1, ~log'[i].first
               PROVE  i > 1 /\ (log'[i - 1].done => log'[i].prev = i - 1)
    BY <1>1 DEF LinkInv
  <2>1. CASE i \in 1..n
    <3>1. i > 1 /\ (log[i - 1].done => log[i].prev = i - 1)
      BY <2>1, <1>1, <1>p DEF LinkInv, Chain
    <3> QED BY <2>1, <3>1, <1>0, <1>1
  <2>2. CASE i = n + 1
    <3>1. ~fresh BY <2>2, <1>1
    <3>2. n > 0 /\ (log[n].done => previous = n) BY <1>p, <3>1 DEF TailInv, Chain
    <3> QED BY <2>2, <3>2, <1>0, <1>1
  <2> QED BY <1>0, <2>1, <2>2
<1>7. TailInv'
  BY <1>0, <1>1 DEF TailInv
<1>8. FreshInv'
  BY DEF FreshInv, Extend
<1>9. FirstInv'
  <2> SUFFICES ASSUME NEW i \in 1..n + 1, NEW j \in 1..n + 1,
                      log'[i].first, j < i, j > log'[i].prev,
                      log'[i].prev # 0 \/ SameFile(j, i)', Readable(j)'
               PROVE  FALSE
    BY <1>1 DEF FirstInv
  <2>0. j \in 1..n /\ log'[j] = log[j] /\ Readable(j) BY <1>0, <1>1, <1>3
  <2>1. CASE i \in 1..n
    <3>1. log'[i] = log[i] BY <2>1, <1>1
    <3> QED BY <2>0, <2>1, <3>1, <1>p DEF FirstInv, SameFile, Chain
  <2>2. CASE i = n + 1
    <3>1. log'[i] = e BY <2>2, <1>1
    <3>2. fresh /\ j > previous /\ (previous # 0 \/ log[j].file = Current)
      BY <2>0, <3>1, <1>1, <1>p DEF SameFile
    <3> QED BY <2>0, <3>2, <1>p DEF FreshInv, Chain
  <2> QED BY <1>0, <2>1, <2>2
<1>10. log'[n + 1].kid = kid BY <1>1
<1>11. Chain' BY <1>5, <1>6, <1>7, <1>8, <1>9 DEF Chain
<1> QED BY <1>1, <1>2, <1>4, <1>10, <1>11

-----------------------------------------------------------------------------
LEMMA ChainOpen == ASSUME IInv, Open PROVE ChainInv'
<1> USE DEF IInv, Open, Goto, files, keyring, rotator
<1>1. TypeOK' BY DEF TypeOK, Current
<1>2. LoggerInv' BY DEF LoggerInv
<1>3. FilesInv' BY DEF FilesInv, Chain
<1>4. LinkInv' BY DEF LinkInv, Chain
<1>5. TailInv' BY DEF TailInv
<1>6. FirstInv' BY DEF FirstInv, Chain, Readable, SameFile
<1>7. FreshInv'
  <2> DEFINE n == Len(log)
  <2> SUFFICES ASSUME NEW j \in 1..n, j > previous',
                      previous' # 0 \/ log[j].file = Current, Readable(j)
               PROVE  FALSE
    BY DEF FreshInv, Readable, SameFile, Current
  <2>0. n \in Nat /\ Current \in Nat /\ log[j].file <= Current
    BY DEF TypeOK, Current
  <2>1. \A i \in 1..n : log[i].file \in Nat BY LogFacts
  <2>2. IsLastHmac(previous') /\ previous' \in Nat BY <2>0
  <2>3. CASE log[j].file = Current
    BY <2>0, <2>2, <2>3 DEF IsLastHmac
  <2>4. CASE log[j].file # Current
    <3>1. previous' \in 1..n /\ log[previous'].file = Current
      BY <2>2, <2>4 DEF IsLastHmac
    <3>2. log[previous'].file <= log[j].file BY <3>1 DEF FilesInv, Chain
    <3> QED BY <2>0, <2>1, <2>4, <3>1, <3>2
  <2> QED BY <2>3, <2>4
<1> QED BY <1>1, <1>2, <1>3, <1>4, <1>5, <1>6, <1>7 DEF ChainInv, Chain

LEMMA ChainWriteText == ASSUME IInv, WriteText PROVE ChainInv'
<1> USE DEF IInv, WriteText, Goto, keyring, rotator
<1>0. ChainInv /\ Live /\ kid # 0 /\ Len(log) \in Nat
  BY DEF ChainInv, Live, LoggerInv, TypeOK
<1>1. /\ Len(log') = Len(log) + 1 /\ Len(written') = Len(written)
      /\ log' \in Seq(Fragments) /\ written' \in Seq(Nat)
      /\ \A i \in 1..Len(log') :
           log'[i].file <= Current' /\ log'[i].prev < i /\ log'[i].kid \in 1..made'
      /\ Chain'
  BY <1>0, Extended
<1>f. fresh' \in BOOLEAN BY DEF Extend
<1>2. TypeOK'
  <2>1. kept' = kept BY DEF Extend
  <2> QED BY <1>0, <1>1, <1>f, <2>1 DEF TypeOK, Current
<1>3. LoggerInv' BY <1>0, <1>1 DEF LoggerInv
<1> QED BY <1>1, <1>2, <1>3 DEF ChainInv

LEMMA ChainWriteTextFails == ASSUME IInv, WriteTextFails PROVE ChainInv'
<1> USE DEF IInv, WriteTextFails, Goto, keyring, rotator
<1>0. ChainInv /\ Live /\ kid # 0 /\ Len(log) \in Nat
  BY DEF ChainInv, Live, LoggerInv, TypeOK
<1>3. LoggerInv' BY <1>0 DEF LoggerInv
<1>4. CASE Extend(FALSE)
  <2>1. /\ Len(log') = Len(log) + 1 /\ Len(written') = Len(written)
        /\ log' \in Seq(Fragments) /\ written' \in Seq(Nat)
        /\ \A i \in 1..Len(log') :
             log'[i].file <= Current' /\ log'[i].prev < i /\ log'[i].kid \in 1..made'
        /\ Chain'
    BY <1>0, <1>4, Extended
  <2>f. fresh' \in BOOLEAN /\ kept' = kept BY <1>4 DEF Extend
  <2>2. TypeOK' BY <1>0, <2>1, <2>f DEF TypeOK, Current, Fault
  <2> QED BY <1>3, <2>1, <2>2 DEF ChainInv
<1>5. CASE UNCHANGED <<files, fresh>>
  <2>1. TypeOK' BY <1>5 DEF TypeOK, Current, Fault, files
  <2>2. Chain'
    BY <1>0, <1>5, EntriesKept DEF files
  <2> QED BY <1>3, <2>1, <2>2 DEF ChainInv
<1> QED BY <1>4, <1>5

(* The newline and the report of the last entry leave the others alone. *)
LEMMA LastMarked ==
    ASSUME TypeOK, Len(log) > 0, NEW e \in Fragments,
           log' = [log EXCEPT ![Len(log)] = e],
           e.file = log[Len(log)].file, e.prev = log[Len(log)].prev,
           e.kid = log[Len(log)].kid, e.whole = log[Len(log)].whole,
           e.first = log[Len(log)].first, Current' = Current, made' = made
    PROVE  /\ log' \in Seq(Fragments) /\ Len(log') = Len(log)
           /\ \A i \in 1..Len(log) :
                /\ log'[i].file = log[i].file /\ log'[i].prev = log[i].prev
                /\ log'[i].kid = log[i].kid
                /\ i < Len(log) => log'[i] = log[i]
                /\ Readable(i)' <=> Readable(i)
           /\ \A i \in 1..Len(log') :
                log'[i].file <= Current' /\ log'[i].prev < i /\ log'[i].kid \in 1..made'
           /\ FilesInv => FilesInv'
           /\ LinkInv => LinkInv'
           /\ FirstInv => FirstInv'
<1> USE DEF TypeOK
<1> DEFINE n == Len(log)
<1>0. n \in Nat \ {0} /\ \A i \in 1..n : log[i] \in Fragments BY LogFacts
<1> HIDE DEF TypeOK
<1>1. log' \in Seq(Fragments) /\ Len(log') = n /\ log'[n] = e
  BY <1>0 DEF TypeOK
<1>2. \A i \in 1..n : i < n => log'[i] = log[i] BY <1>0 DEF TypeOK
<1>3. \A i \in 1..n :
        /\ log'[i].file = log[i].file /\ log'[i].prev = log[i].prev
        /\ log'[i].kid = log[i].kid /\ log'[i].whole = log[i].whole
        /\ log'[i].first = log[i].first
  <2> TAKE i \in 1..n
  <2>1. CASE i = n BY <2>1, <1>1
  <2>2. CASE i # n
    <3>1. i < n BY <2>2, <1>0
    <3> QED BY <3>1, <1>2
  <2> QED BY <2>1, <2>2
<1>4. \A i \in 1..n : Readable(i)' <=> Readable(i)
  <2> TAKE i \in 1..n
  <2>1. i > 1 => (SameFile(i - 1, i)' <=> SameFile(i - 1, i)) /\ log'[i - 1] = log[i - 1]
    BY <1>0, <1>2, <1>3 DEF SameFile
  <2>2. i < n => (SameFile(i, i + 1)' <=> SameFile(i, i + 1)) /\ log'[i] = log[i]
    BY <1>0, <1>2, <1>3 DEF SameFile
  <2> QED BY <2>1, <2>2, <1>1, <1>3 DEF Readable
<1>5. \A i \in 1..n :
        log'[i].file <= Current' /\ log'[i].prev < i /\ log'[i].kid \in 1..made'
  BY <1>3 DEF TypeOK
<1>6. FilesInv => FilesInv'
  <2> SUFFICES ASSUME FilesInv, NEW i \in 1..n, NEW j \in 1..n, i < j
               PROVE  log'[i].file <= log'[j].file
    BY <1>1 DEF FilesInv
  <2>1. log[i].file <= log[j].file BY DEF FilesInv
  <2> QED BY <2>1, <1>3
<1>7. LinkInv => LinkInv'
  <2> SUFFICES ASSUME LinkInv, NEW i \in 1..n, ~log'[i].first
               PROVE  i > 1 /\ (log'[i - 1].done => log'[i].prev = i - 1)
    BY <1>1 DEF LinkInv
  <2>1. i > 1 /\ (log[i - 1].done => log[i].prev = i - 1) BY <1>3 DEF LinkInv
  <2>2. i - 1 \in 1..n /\ i - 1 < n BY <1>0, <2>1
  <2> QED BY <2>1, <2>2, <1>2, <1>3
<1>8. FirstInv => FirstInv'
  <2> SUFFICES ASSUME FirstInv, NEW i \in 1..n, NEW j \in 1..n,
                      log'[i].first, j < i, j > log'[i].prev,
                      log'[i].prev # 0 \/ SameFile(j, i)'
               PROVE  ~Readable(j)'
    BY <1>1 DEF FirstInv
  <2>1. /\ log[i].first /\ j > log[i].prev /\ (log[i].prev # 0 \/ SameFile(j, i))
    BY <1>3 DEF SameFile
  <2>2. ~Readable(j) BY <2>1 DEF FirstInv
  <2> QED BY <2>2, <1>4
<1> QED BY <1>1, <1>2, <1>3, <1>4, <1>5, <1>6, <1>7, <1>8

LEMMA ChainWriteNewline == ASSUME IInv, WriteNewline PROVE ChainInv'
<1> USE DEF IInv, WriteNewline, Goto, keyring, rotator
<1> DEFINE n == Len(log)
           e == [log[n] EXCEPT !.newline = TRUE]
<1>0. /\ n \in Nat \ {0} /\ Live /\ log[n] \in Fragments
      /\ written' \in Seq(Nat) /\ Len(written') = Len(written) /\ Current' = Current
  BY DEF TypeOK, LoggerInv, Live, Current
<1>1. /\ e \in Fragments /\ log' = [log EXCEPT ![n] = e]
      /\ e.file = log[n].file /\ e.prev = log[n].prev /\ e.kid = log[n].kid
      /\ e.whole = log[n].whole /\ e.done = log[n].done /\ e.first = log[n].first
  BY <1>0 DEF Fragments
<1> HIDE DEF e
<1>2. /\ log' \in Seq(Fragments) /\ Len(log') = n
      /\ \A i \in 1..n : log'[i].file = log[i].file /\ (Readable(i)' <=> Readable(i))
      /\ \A i \in 1..Len(log') :
           log'[i].file <= Current' /\ log'[i].prev < i /\ log'[i].kid \in 1..made'
      /\ FilesInv' /\ LinkInv' /\ FirstInv'
  <2>1. TypeOK /\ Len(log) > 0 /\ Current' = Current /\ made' = made
    BY <1>0
  <2> QED BY <1>1, <2>1, LastMarked DEF Chain
<1>3. log'[n] = e BY <1>0, <1>1 DEF TypeOK
<1>4. TypeOK' BY <1>0, <1>2 DEF TypeOK
<1>5. LoggerInv' BY <1>0, <1>2 DEF LoggerInv
<1>6. TailInv' BY <1>0, <1>1, <1>2, <1>3 DEF TailInv, Live, Chain
<1>7. FreshInv' BY <1>0, <1>2 DEF FreshInv, Live, Chain
<1> QED BY <1>2, <1>4, <1>5, <1>6, <1>7 DEF ChainInv, Chain

LEMMA ChainSync == ASSUME IInv, Sync PROVE ChainInv'
<1> USE DEF IInv, Sync, Goto, keyring, rotator
<1> DEFINE n == Len(log)
           e == [log[n] EXCEPT !.done = TRUE]
<1>0. n \in Nat \ {0} /\ log[n] \in Fragments /\ Current' = Current
  BY DEF TypeOK, LoggerInv, Current
<1>1. /\ e \in Fragments /\ log' = [log EXCEPT ![n] = e]
      /\ e.file = log[n].file /\ e.prev = log[n].prev /\ e.kid = log[n].kid
      /\ e.whole = log[n].whole /\ e.first = log[n].first
  BY <1>0 DEF Fragments
<1> HIDE DEF e
<1>2. /\ log' \in Seq(Fragments) /\ Len(log') = n
      /\ \A i \in 1..Len(log') :
           log'[i].file <= Current' /\ log'[i].prev < i /\ log'[i].kid \in 1..made'
      /\ FilesInv' /\ LinkInv' /\ FirstInv'
  <2>1. TypeOK /\ Len(log) > 0 /\ Current' = Current /\ made' = made
    BY <1>0
  <2> QED BY <1>1, <2>1, LastMarked DEF Chain
<1>4. TypeOK' BY <1>0, <1>2 DEF TypeOK
<1>5. LoggerInv' BY <1>0, <1>2 DEF LoggerInv
<1>6. TailInv' BY <1>0, <1>2 DEF TailInv
<1>7. FreshInv' BY <1>0, <1>2 DEF FreshInv
<1> QED BY <1>2, <1>4, <1>5, <1>6, <1>7 DEF ChainInv, Chain

LEMMA ChainRename == ASSUME IInv, RotateRename PROVE ChainInv'
<1> USE DEF IInv, RotateRename, Goto, keyring, rotator
<1>0. /\ Current \in Nat \ {0} /\ Current' = Current + 1 /\ Len(log) \in Nat
      /\ written' \in Seq(Nat) /\ Len(written') = Len(written) + 1
  BY DEF TypeOK, Current
<1>t. \A i \in 1..Len(log) : log[i].file \in Nat BY LogFacts
<1>1. TypeOK' BY <1>0, <1>t DEF TypeOK
<1>2. LoggerInv' BY DEF LoggerInv
<1>3. FilesInv' BY DEF FilesInv, Chain
<1>4. LinkInv' BY DEF LinkInv, Chain
<1>5. TailInv' BY DEF TailInv, Live, Chain
<1>6. FreshInv'
  <2>1. \A j \in 1..Len(log) : log[j].file # Current' BY <1>0, <1>t DEF TypeOK
  <2>2. Live /\ \A j \in 1..Len(log) : Readable(j)' <=> Readable(j)
    BY DEF Live, Readable, SameFile
  <2> QED BY <2>1, <2>2 DEF FreshInv, Chain
<1>7. FirstInv' BY DEF FirstInv, Chain, Readable, SameFile
<1> QED BY <1>1, <1>2, <1>3, <1>4, <1>5, <1>6, <1>7 DEF ChainInv, Chain

LEMMA ChainReopen == ASSUME IInv, RotateReopen PROVE ChainInv'
<1> USE DEF IInv, RotateReopen, Goto, keyring, rotator
<1>0. /\ Current \in Nat \ {0} /\ Current' = Current
      /\ written' \in Seq(Nat) /\ Len(written') = Len(written)
  BY DEF TypeOK, Current
<1>1. TypeOK' BY <1>0 DEF TypeOK
<1>2. LoggerInv' BY DEF LoggerInv
<1>3. FilesInv' BY DEF FilesInv, Chain
<1>4. LinkInv' BY DEF LinkInv, Chain
<1>5. TailInv' BY DEF TailInv, Live, Chain
<1>6. FreshInv' BY <1>0 DEF FreshInv, Live, Chain, Readable, SameFile
<1>7. FirstInv' BY DEF FirstInv, Chain, Readable, SameFile
<1> QED BY <1>1, <1>2, <1>3, <1>4, <1>5, <1>6, <1>7 DEF ChainInv, Chain

(* The steps that write nothing to a log file. *)
Quiet ==
    \/ LoadKey \/ LoadKeyMisses \/ CreateKey \/ FallbackKey \/ Close
    \/ StartAppend \/ NewlineOrSyncFails \/ RotateGate \/ EnforceLogRetention
    \/ UnlinkFails \/ RetentionCrash \/ RotateFails \/ Crash
    \/ RotateKey \/ RotateKeyFallsBack \/ ArchiveKey \/ ArchiveKeyFails
    \/ SetKey \/ SetKeyFails \/ RotateKeyCrash \/ Tick \/ UNCHANGED vars

LEMMA ChainQuiet == ASSUME IInv, Quiet PROVE ChainInv'
<1> USE DEF IInv, Quiet, LoadKey, LoadKeyMisses, CreateKey, FallbackKey, Close,
            StartAppend, NewlineOrSyncFails, RotateGate, EnforceLogRetention,
            UnlinkFails, RetentionCrash, SomeUnlinked, RotateFails, Crash, RotateKey,
            RotateKeyFallsBack, ArchiveKey, ArchiveKeyFails, SetKey, SetKeyFails,
            RotateKeyCrash, Tick, vars, files, logger, keyring, rotator, Goto, Fault
<1>1. /\ UNCHANGED <<log, written>>
      /\ Live' => Live /\ previous' = previous /\ fresh' = fresh
  BY DEF Live
<1>2. Chain' BY <1>1, EntriesKept DEF ChainInv
<1>3. LoggerInv'
  <2>1. pc' \notin {"off", "create"} => kid' # 0
    <3>1. CASE LoadKey BY <3>1
    <3>2. CASE CreateKey \/ FallbackKey
      <4>1. kid' = made + 1 /\ made \in Nat BY <3>2 DEF TypeOK
      <4> QED BY <4>1
    <3>3. CASE ~LoadKey /\ ~CreateKey /\ ~FallbackKey
      <4>1. kid' = kid /\ (pc' \notin {"off", "create"} => pc \notin {"off", "create"})
        BY <3>3
      <4> QED BY <4>1 DEF LoggerInv
    <3> QED BY <3>1, <3>2, <3>3
  <2>2. pc' \in {"newline", "sync"} => Len(log') > 0
    <3>1. pc' \in {"newline", "sync"} => pc' = pc OBVIOUS
    <3> QED BY <1>1, <3>1 DEF LoggerInv
  <2>3. rpc' = "archive" => old' # 0
    <3>1. CASE RotateKey BY <3>1
    <3>2. CASE ~RotateKey
      <4>1. rpc' = "archive" => rpc' = rpc /\ old' = old BY <3>2
      <4> QED BY <4>1 DEF LoggerInv
    <3> QED BY <3>1, <3>2
  <2> QED BY <2>1, <2>2, <2>3 DEF LoggerInv
<1>4. TypeOK'
  <2>1. now' \in Nat /\ crashes' \in Nat /\ faults' \in Nat
    <3>1. now' \in {now, now + 1} OBVIOUS
    <3>2. crashes' \in {crashes, crashes + 1} OBVIOUS
    <3>3. faults' \in {faults, faults + 1} OBVIOUS
    <3> QED BY <3>1, <3>2, <3>3 DEF TypeOK
  <2>7. fresh' \in BOOLEAN /\ bare' \in BOOLEAN
    <3>1. fresh' = fresh /\ bare' = bare OBVIOUS
    <3> QED BY <3>1 DEF TypeOK
  <2>2. made' \in Nat /\ made' >= made BY DEF TypeOK
  <2>8. key' \in 0..made' /\ old' \in 0..made' /\ kid' \in 0..made'
    <3>1. key' \in {key, made'} /\ old' \in {old, key} /\ kid' \in {kid, key, made'}
      OBVIOUS
    <3> QED BY <2>2, <3>1 DEF TypeOK
  <2>3. archived' \subseteq 1..made'
    <3>1. CASE ArchiveKey
      <4>1. old \in 1..made BY <3>1 DEF TypeOK, LoggerInv
      <4> QED BY <3>1, <4>1 DEF TypeOK
    <3>2. CASE ~ArchiveKey
      <4>1. archived' \subseteq archived BY <3>2
      <4> QED BY <4>1, <2>2 DEF TypeOK
    <3> QED BY <3>1, <3>2
  <2>9. volatile' \subseteq 1..made' /\ lost' \subseteq 0..made'
    <3>1. /\ volatile' \subseteq volatile \cup {made'}
          /\ volatile' # volatile => made' = made + 1
          /\ lost' \subseteq lost \cup {key}
      OBVIOUS
    <3>2. made \in Nat /\ volatile \subseteq 1..made /\ lost \subseteq 0..made
          /\ key \in 0..made
      BY DEF TypeOK
    <3>3. volatile' \subseteq 1..made'
      <4>1. CASE volatile' = volatile BY <4>1, <2>2, <3>2
      <4>2. CASE volatile' # volatile
        <5>1. made' \in 1..made' BY <3>1, <3>2, <4>2
        <5> QED BY <5>1, <2>2, <3>1, <3>2
      <4> QED BY <4>1, <4>2
    <3>4. lost' \subseteq 0..made' BY <2>2, <3>1, <3>2
    <3> QED BY <3>3, <3>4
  <2>4. previous' \in 0..Len(log') /\ kept' \subseteq 1..(Current' - 1)
    BY <1>1 DEF TypeOK, Current
  <2>5. /\ pc' \in {"off", "create", "open", "idle", "closed", "text", "newline",
                   "sync", "gate", "rename", "reopen", "retain"}
        /\ rpc' \in {"off", "archive", "set"}
    BY DEF TypeOK
  <2>6. \A i \in 1..Len(log') :
          log'[i].file <= Current' /\ log'[i].prev < i /\ log'[i].kid \in 1..made'
    BY <1>1, <2>2 DEF TypeOK, Current
  <2> QED BY <1>1, <2>1, <2>2, <2>3, <2>4, <2>5, <2>6, <2>7, <2>8,
         <2>9 DEF TypeOK
<1> QED BY <1>2, <1>3, <1>4 DEF ChainInv

-----------------------------------------------------------------------------
LEMMA ChainStep == ASSUME IInv, [Next]_vars PROVE ChainInv'
<1>1. Quiet => ChainInv' BY ChainQuiet
<1>2. Open => ChainInv' BY ChainOpen
<1>3. WriteText => ChainInv' BY ChainWriteText
<1>4. WriteTextFails => ChainInv' BY ChainWriteTextFails
<1>5. WriteNewline => ChainInv' BY ChainWriteNewline
<1>6. Sync => ChainInv' BY ChainSync
<1>7. RotateRename => ChainInv' BY ChainRename
<1>8. RotateReopen => ChainInv' BY ChainReopen
<1> QED BY <1>1, <1>2, <1>3, <1>4, <1>5, <1>6, <1>7, <1>8 DEF Next, Quiet

(* The steps of the logger that touch neither keys nor kid. *)
LEMMA KeyFrame ==
    ASSUME IInv, UNCHANGED <<keyring, rotator, kid>>,
           pc' \notin {"off", "create"} => pc \notin {"off", "create"},
           pc' = "create" => pc = "create",
           \A i \in 1..Len(log') :
              \/ i \in 1..Len(log) /\ log'[i].kid = log[i].kid
              \/ pc \notin {"off", "create"} /\ log'[i].kid = kid
    PROVE  KeyInv'
BY DEF IInv, KeyInv, Accounted, keyring, rotator

LEMMA KeyLogger ==
    ASSUME IInv,
           \/ Open \/ Close \/ StartAppend \/ NewlineOrSyncFails \/ RotateGate
           \/ RotateRename \/ RotateReopen \/ EnforceLogRetention \/ UnlinkFails
           \/ RetentionCrash \/ RotateFails \/ Crash \/ Tick \/ RotateKeyFallsBack
           \/ UNCHANGED vars
    PROVE  KeyInv'
<1> USE DEF Open, Close, StartAppend, NewlineOrSyncFails, RotateGate, RotateRename,
            RotateReopen, EnforceLogRetention, UnlinkFails, RetentionCrash,
            RotateFails, Crash, Tick, RotateKeyFallsBack, vars, files, logger, Goto
<1>1. UNCHANGED <<keyring, rotator, kid, log>>
      /\ (pc' \notin {"off", "create"} => pc \notin {"off", "create"})
      /\ (pc' = "create" => pc = "create")
  OBVIOUS
<1> QED BY <1>1, KeyFrame

LEMMA KeyWrites ==
    ASSUME IInv, WriteText \/ WriteTextFails \/ WriteNewline \/ Sync
    PROVE  KeyInv'
<1> USE DEF WriteText, WriteTextFails, WriteNewline, Sync, Goto, files
<1>0. /\ UNCHANGED <<keyring, rotator, kid>>
      /\ pc \notin {"off", "create"} /\ pc' # "create"
      /\ Len(log) \in Nat /\ log \in Seq(Fragments)
  <2>1. /\ UNCHANGED <<keyring, rotator, kid>>
        /\ pc \notin {"off", "create"} /\ pc' # "create"
    OBVIOUS
  <2> QED BY <2>1 DEF IInv, TypeOK
<1>1. ASSUME NEW w \in BOOLEAN, Extend(w) PROVE KeyInv'
  <2>1. \A i \in 1..Len(log') :
          \/ i \in 1..Len(log) /\ log'[i].kid = log[i].kid
          \/ log'[i].kid = kid
    <3> DEFINE e == [file |-> Current, prev |-> previous, kid |-> kid,
                     whole |-> w, newline |-> FALSE, done |-> FALSE,
                     first |-> fresh]
    <3>1. e \in Fragments /\ log' = Append(log, e) /\ e.kid = kid
      BY <1>1, LogFacts DEF Extend, IInv, TypeOK, Fragments
    <3> HIDE DEF e
    <3>2. /\ Len(log') = Len(log) + 1 /\ log'[Len(log) + 1] = e
          /\ \A i \in 1..Len(log) : log'[i] = log[i]
      BY <1>0, <3>1
    <3> QED BY <1>0, <3>1, <3>2
  <2> QED BY <1>0, <2>1, KeyFrame
<1>2. ASSUME UNCHANGED <<files, fresh>> PROVE KeyInv'
  BY <1>0, <1>2, KeyFrame
<1>3. ASSUME WriteNewline \/ Sync PROVE KeyInv'
  <2>0. Len(log) \in 1..Len(log) /\ log[Len(log)] \in Fragments
    BY <1>0, <1>3 DEF IInv, LoggerInv
  <2>1. \A i \in 1..Len(log') :
          i \in 1..Len(log) /\ log'[i].kid = log[i].kid
    <3> DEFINE n == Len(log)
    <3>1. PICK e \in Fragments : log' = [log EXCEPT ![n] = e] /\ e.kid = log[n].kid
      <4>1. CASE WriteNewline
        <5>1. /\ [log[n] EXCEPT !.newline = TRUE] \in Fragments
              /\ [log[n] EXCEPT !.newline = TRUE].kid = log[n].kid
          BY <2>0 DEF Fragments
        <5> QED BY <4>1, <5>1
      <4>2. CASE Sync
        <5>1. /\ [log[n] EXCEPT !.done = TRUE] \in Fragments
              /\ [log[n] EXCEPT !.done = TRUE].kid = log[n].kid
          BY <2>0 DEF Fragments
        <5> QED BY <4>2, <5>1
      <4> QED BY <1>3, <4>1, <4>2
    <3> QED BY <1>0, <2>0, <3>1
  <2> QED BY <1>0, <2>1, KeyFrame
<1> QED BY <1>1, <1>2, <1>3

LEMMA KeyStep == ASSUME IInv, [Next]_vars PROVE KeyInv'
<1> USE DEF IInv, KeyInv, Accounted, files, logger, keyring, rotator, Goto
<1>1. LoadKey => KeyInv' BY DEF LoadKey
<1>2. LoadKeyMisses => KeyInv' BY DEF LoadKeyMisses
<1>3. ASSUME CreateKey PROVE KeyInv'
  <2>1. /\ log' = log /\ key' = made + 1 /\ kid' = key' /\ archived' = archived
        /\ rpc' = rpc /\ old' = old /\ volatile' = volatile /\ bare' = bare
        /\ pc = "create" /\ lost \subseteq lost'
    BY <1>3 DEF CreateKey
  <2>2. \A i \in 1..Len(log) : log[i].kid \in archived \cup volatile \cup lost'
    BY <1>3, LogFacts DEF CreateKey, TypeOK
  <2> QED BY <2>1, <2>2
<1>4. FallbackKey => KeyInv' BY DEF FallbackKey
<1>5. RotateKey => KeyInv' BY DEF RotateKey, TypeOK
<1>6. ArchiveKey => KeyInv' BY DEF ArchiveKey
<1>7. ArchiveKeyFails => KeyInv' BY DEF ArchiveKeyFails
<1>8. ASSUME SetKey PROVE KeyInv'
  <2>1. /\ log' = log /\ key' = made + 1 /\ kid' = kid /\ archived' = archived
        /\ rpc' = "off" /\ old' = old /\ pc' = pc /\ rpc = "set"
        /\ volatile' = volatile /\ bare' = bare /\ made \in Nat
        /\ lost' = IF key = old THEN lost ELSE lost \cup {key}
    BY <1>8 DEF SetKey, TypeOK
  <2>2. key # 0 => key \in archived \cup lost' BY <2>1
  <2>3. \A i \in 1..Len(log) : log'[i].kid \in Accounted'
    BY <2>1, <2>2, LogFacts DEF TypeOK
  <2>4. pc' \notin {"off", "create"} => kid' \in Accounted'
    BY <2>1, <2>2 DEF LoggerInv
  <2>5. ~bare' => key' # 0 /\ lost' = {} /\ pc' # "create" BY <2>1
  <2> QED BY <2>1, <2>3, <2>4, <2>5
<1>9. SetKeyFails => KeyInv' BY DEF SetKeyFails
<1>10. RotateKeyCrash => KeyInv' BY DEF RotateKeyCrash
<1> QED
  BY <1>1, <1>2, <1>3, <1>4, <1>5, <1>6, <1>7, <1>8, <1>9, <1>10, KeyLogger,
     KeyWrites DEF Next

(* The inductive invariant. *)
THEOREM Invariance == Spec => []IInv
<1>1. IInv /\ [Next]_vars => IInv'
  BY ChainStep, KeyStep DEF IInv, ChainInv
<1> QED BY Initially, <1>1, PTL DEF Spec

(* Types of the log, the logger and the keys, for every bound. *)
THEOREM TypeCorrect == Spec => []TypeOK
<1>1. IInv => TypeOK BY DEF IInv
<1> QED BY Invariance, <1>1, PTL

(* Every alarm of an export has one of the causes that AlarmsExplained     *)
(* names: a logger takes up the chain of its file after any crash, torn    *)
(* line or failed append, and then keeps it through rotations, failed      *)
(* appends and changes of the key, except behind a line whose append       *)
(* reported an error although it is complete.                              *)
THEOREM AlarmsHaveCauses == Spec => []AlarmsExplained
<1>1. IInv => AlarmsExplained
  <2> SUFFICES ASSUME IInv, NEW i \in Exported, Verdict(i) = "tampered"
               PROVE  IF log[i].first
                      THEN \/ /\ log[i].prev = 0
                              /\ \A j \in 1..(i - 1) : SameFile(j, i) => ~Readable(j)
                           \/ log[i].prev # 0 /\ log[i].prev \notin Exported
                      ELSE i - 1 \notin Exported \/ ~log[i - 1].done
    BY DEF AlarmsExplained
  <2> DEFINE IsBefore(h) == h < i /\ \A j \in Exported : j < i => j <= h
  <2>0. /\ Len(log) \in Nat /\ i \in 1..Len(log) /\ Exported \subseteq 1..Len(log)
        /\ \A j \in Exported : Readable(j)
        /\ log[i].prev \in Nat /\ log[i].prev < i
    BY LogFacts DEF IInv, TypeOK, Exported
  <2>1. ASSUME NEW h \in Exported, IsBefore(h) PROVE log[i].prev # h
    <3>1. \A k \in Exported \cup {0} : IsBefore(k) => k = h
      BY <2>0, <2>1
    <3>2. Before(i) = CHOOSE k \in Exported \cup {0} : IsBefore(k) BY DEF Before
    <3> HIDE DEF IsBefore
    <3>3. Before(i) = h BY <2>1, <3>1, <3>2
    <3> QED BY <3>3 DEF Verdict
  <2>2. CASE log[i].first /\ log[i].prev = 0
    BY <2>0, <2>2 DEF IInv, Chain, FirstInv
  <2>3. CASE log[i].first /\ log[i].prev # 0
    <3>1. \A j \in Exported : j < i => j <= log[i].prev
      BY <2>0, <2>3 DEF IInv, Chain, FirstInv
    <3>2. log[i].prev \notin Exported BY <2>0, <2>1, <3>1
    <3> QED BY <2>3, <3>2
  <2>4. CASE ~log[i].first
    <3>1. i > 1 /\ (log[i - 1].done => log[i].prev = i - 1)
      BY <2>0, <2>4 DEF IInv, Chain, LinkInv
    <3>2. i - 1 \in Exported => log[i].prev # i - 1
      BY <2>0, <2>1, <3>1
    <3> QED BY <2>4, <3>1, <3>2
  <2> QED BY <2>2, <2>3, <2>4
<1> QED BY Invariance, <1>1, PTL

(* No key that sealed an entry is lost by a key rotation, however it ends: *)
(* a key that is neither in the keyring nor archived was left in the       *)
(* memory of a process by a failing keyring, or was replaced unread, which *)
(* does not happen where the keyring held a key to begin with.             *)
THEOREM KeysOnHand == Spec => []KeyOnHand
<1>1. IInv => KeyOnHand BY DEF IInv, KeyInv, Accounted, KeyOnHand
<1> QED BY Invariance, <1>1, PTL
=============================================================================
