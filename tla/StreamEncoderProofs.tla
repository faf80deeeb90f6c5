------------------------- MODULE StreamEncoderProofs -------------------------
(***************************************************************************)
(* FrameEncoder, for every window, block size, dictionary and sequence of  *)
(* calls: its frames are those of FrameWriter, whatever fails, and its     *)
(* tables and window move together.                                        *)
(*                                                                         *)
(* The refinement rests on Account: at every place a call can be, what was *)
(* hashed is what was written, what is buffered and, behind the header,    *)
(* what the call still holds.  Nothing but a new encoder comes behind a    *)
(* torn frame.                                                             *)
(***************************************************************************)
EXTENDS StreamEncoder, TLAPS

(* Places of a call in front of the header.                                *)
BeforeHeader == {"write.header", "finish.header", "reset.header"}

(* Where a call is when it has not failed, the frame is at this point.     *)
Account ==
  /\ state = "Ready" \/ call \in BeforeHeader =>
       /\ wire \in {"start", "blocks"} /\ (headerWritten <=> wire = "blocks")
       /\ wire = "start" => buffer = 0
       /\ hashed = written + buffer
  /\ call \in {"write.fill", "write.block"} =>
       wire = "blocks" /\ headerWritten /\ hashed = written + buffer + left
  /\ call \in {"flush.block", "finish.block", "reset.block"} =>
       wire = "blocks" /\ headerWritten /\ hashed = written + buffer
  /\ call = "flush.inner" =>
       /\ wire \in {"start", "blocks"} /\ (headerWritten <=> wire = "blocks")
       /\ buffer = 0 /\ hashed = written
  /\ call \in {"finish.checksum", "reset.checksum"} =>
       wire = "checksum" /\ buffer = 0 /\ hashed = written
  /\ call = "reset.swap" => wire = "complete" /\ buffer = 0

(* An encoder is ready between calls only; only a write holds bytes.       *)
Control ==
  /\ state = "Ready" => call = "none"
  /\ state = "Finished" => call \in {"reset.swap", "consumed"}
  /\ wire = "torn" => call = "none" /\ state = "Failed"
  /\ call = "none" => state = "Ready" \/ wire = "torn"
  /\ left > 0 => call \in {"write.header", "write.fill", "write.block"}

(* An entry that stands for a byte of the frame is the position of one in  *)
(* the window; an empty long-distance entry is at 0.                       *)
Tracked(entries, from, len) ==
  /\ entries \in [TableNames -> Entry]
  /\ \A s \in TableNames : entries[s].byte # NoByte =>
       entries[s].byte = from + entries[s].pos /\ entries[s].pos < len
  /\ \A s \in LongTables : entries[s].byte = NoByte => entries[s].pos = 0

(* No entry is left over from another frame: only cleared ones stand for   *)
(* no byte.                                                                *)
NoneStale(entries) ==
  \A s \in TableNames : entries[s].byte = NoByte => entries[s].pos = 0

TablesInv ==
  /\ Tracked(table, base, window)
  /\ frames > 0
  /\ frames = 1 => NoneStale(table)
  /\ frames = 1 => \A m \in search.cands : m = 0 \/ m < search.from

IInv ==
  TypeOK /\ WindowCoversHistory /\ Account /\ Control /\ TablesInv

-----------------------------------------------------------------------------
USE ConstantsAssumption

(***************************************************************************)
(* Tables.                                                                 *)
(***************************************************************************)
LEMMA ClearedEntry == Cleared \in Entry /\ Cleared.pos = 0 /\ Cleared.byte = NoByte
  BY DEF Cleared, Entry, NoByte

LEMMA ReducedTracked ==
  ASSUME NEW t, NEW from \in Nat, NEW len \in Nat, NEW shift \in 0 .. len,
         Tracked(t, from, len)
  PROVE  LET r == [s \in TableNames |-> Reduced(t[s], shift)] IN
           /\ Tracked(r, from + shift, len - shift)
           /\ NoneStale(t) => NoneStale(r)
<1>1. ASSUME NEW s \in TableNames
      PROVE  LET e == Reduced(t[s], shift) IN
               /\ e \in Entry
               /\ e.byte # NoByte => e.byte = from + shift + e.pos /\ e.pos < len - shift
               /\ t[s].byte = NoByte /\ t[s].pos = 0 => e.pos = 0
               /\ e.byte = NoByte /\ t[s].byte # NoByte => e.pos = 0
  <2>1. /\ t[s] \in Entry /\ t[s].pos \in Nat
        /\ t[s].byte # NoByte => t[s].byte = from + t[s].pos /\ t[s].pos < len
    BY DEF Tracked, Entry
  <2>2. CASE t[s].pos < shift
    BY <2>1, <2>2, ClearedEntry DEF Reduced
  <2>3. CASE ~(t[s].pos < shift)
    <3>1. Reduced(t[s], shift) = [pos |-> t[s].pos - shift, byte |-> t[s].byte]
      BY <2>1, <2>3 DEF Reduced, Entry
    <3>2. t[s].pos - shift \in Nat
      BY <2>1, <2>3
    <3> QED
      BY <2>1, <3>1, <3>2 DEF Entry
  <2> QED
    BY <2>2, <2>3
<1> QED
  BY <1>1 DEF Tracked, NoneStale

(* A search starts with entries that lie in the window.                    *)
LEMMA SearchTablesTracked ==
  ASSUME Tracked(table, base, window), base \in Nat, window \in Nat,
         NEW t \in SearchTables(window)
  PROVE  /\ Tracked(t, base, window)
         /\ NoneStale(table) => NoneStale(t)
<1> DEFINE known == {[pos |-> p, byte |-> base + p] : p \in 0 .. window - 1}
<1>1. ASSUME NEW e \in {Cleared} \cup known
      PROVE  /\ e \in Entry
             /\ e.byte # NoByte => e.byte = base + e.pos /\ e.pos < window
             /\ e.byte = NoByte => e.pos = 0
  <2>1. CASE e = Cleared
    BY <2>1, ClearedEntry
  <2>2. CASE e \in known
    <3>1. PICK p \in 0 .. window - 1 : e = [pos |-> p, byte |-> base + p]
      BY <2>2
    <3>2. p \in Nat /\ base + p \in Nat
      OBVIOUS
    <3> QED
      BY <3>1, <3>2 DEF Entry, NoByte
  <2> QED
    BY <2>1, <2>2
<1>2. CASE t = table
  BY <1>2
<1>3. CASE \E entries \in {{Cleared}, {Cleared} \cup known} :
             \E h \in [TableNames \ LongTables -> entries] :
               t = [s \in TableNames |-> IF s \in LongTables THEN table[s] ELSE h[s]]
  <2>1. PICK h \in [TableNames \ LongTables -> {Cleared} \cup known] :
          t = [s \in TableNames |-> IF s \in LongTables THEN table[s] ELSE h[s]]
    BY <1>3
  <2>2. \A s \in TableNames : IF s \in LongTables THEN t[s] = table[s]
                              ELSE t[s] \in {Cleared} \cup known
    BY <2>1
  <2>3. t \in [TableNames -> Entry]
    BY <1>1, <2>1 DEF Tracked
  <2> HIDE DEF known
  <2> QED
    BY <1>1, <2>2, <2>3 DEF Tracked, NoneStale
<1> QED
  BY <1>2, <1>3 DEF SearchTables

(* And leaves positions of the block it went through.                      *)
LEMMA SearchedTablesTracked ==
  ASSUME NEW t, base \in Nat, window \in Nat, NEW len \in Nat, window <= len,
         Tracked(t, base, window), NEW u \in SearchedTables(t, window, len)
  PROVE  /\ Tracked(u, base, len)
         /\ NoneStale(t) => NoneStale(u)
<1> DEFINE new == {[pos |-> p, byte |-> base + p] : p \in window .. len - 1}
<1>1. /\ u \in [TableNames -> new \cup {t[s] : s \in TableNames}]
      /\ \A s \in TableNames : u[s] \in new \cup {t[s]}
  BY DEF SearchedTables
<1>2. ASSUME NEW e \in new
      PROVE  e \in Entry /\ e.byte # NoByte /\ e.byte = base + e.pos /\ e.pos < len
  <2>1. PICK p \in window .. len - 1 : e = [pos |-> p, byte |-> base + p]
    OBVIOUS
  <2>2. p \in Nat /\ base + p \in Nat
    OBVIOUS
  <2> QED
    BY <2>1, <2>2 DEF Entry, NoByte
<1> HIDE DEF new
<1>3. ASSUME NEW s \in TableNames
      PROVE  /\ u[s] \in Entry
             /\ u[s].byte # NoByte => u[s].byte = base + u[s].pos /\ u[s].pos < len
             /\ u[s].byte = NoByte => u[s] = t[s]
  <2>1. t[s].pos \in Nat /\ t[s] \in Entry
    BY DEF Tracked, Entry
  <2> QED
    BY <1>1, <1>2, <2>1 DEF Tracked
<1> QED
  BY <1>1, <1>3 DEF Tracked, NoneStale

-----------------------------------------------------------------------------
(***************************************************************************)
(* The block.                                                              *)
(***************************************************************************)
LEMMA BlockSizes == BlockSize \in Nat \ {0}
  BY DEF BlockSize

(* A compaction leaves a window, and otherwise drops nothing.              *)
LEMMA ShiftBounds ==
  ASSUME NEW len \in Nat
  PROVE  /\ Shift(len) \in 0 .. len
         /\ len - Shift(len) <= 2 * Window
         /\ Shift(len) > 0 => len - Shift(len) = Window
  BY DEF Shift, CompactionShift

(* What flush_block makes of window and tables, before the writer sees the *)
(* block.                                                                  *)
LEMMA BlockWindow ==
  ASSUME IInv, NEW last, NEW next, FlushBlock(last, next), wire # "torn"
  PROVE  /\ window' \in Nat /\ base' \in Nat
         /\ base' + window' = dictLen + written + buffer
         /\ base' > 0 => window' >= Window
         /\ window' <= 2 * Window
         /\ table' \in [TableNames -> Entry]
         /\ search' \in [from : Nat, to : Nat, cands : SUBSET Nat]
         /\ TablesInv'
<1> DEFINE len   == window + buffer
           shift == Shift(len)
<1>1. /\ window \in Nat /\ base \in Nat /\ buffer \in Nat /\ len \in Nat
      /\ dictLen \in Nat /\ written \in Nat /\ frames' = frames
      /\ Tracked(table, base, window) /\ Tracked(table, base, len)
      /\ base + window = dictLen + written
      /\ base > 0 => window >= Window
  BY BlockSizes DEF IInv, TypeOK, TablesInv, FlushBlock, WindowCoversHistory, Tracked, Entry
<1>2. /\ shift \in 0 .. len
      /\ len - shift <= 2 * Window
      /\ shift > 0 => len - shift = Window
  BY <1>1, ShiftBounds
<1>3. window' = len - shift /\ base' = base + shift
  BY DEF FlushBlock
<1>4. /\ window' \in Nat /\ base' \in Nat
      /\ base' + window' = dictLen + written + buffer
      /\ base' > 0 => window' >= Window
      /\ window' <= 2 * Window
  <2> HIDE DEF shift
  <2> QED
    BY <1>1, <1>2, <1>3
<1>5. ASSUME NEW t, Tracked(t, base, len), NoneStale(table) => NoneStale(t),
             table' = [s \in TableNames |-> Reduced(t[s], shift)]
      PROVE  Tracked(table', base', window') /\ (frames = 1 => NoneStale(table'))
  <2> HIDE DEF shift, len
  <2> QED
    BY <1>1, <1>2, <1>3, <1>5, ReducedTracked DEF IInv, TablesInv
<1>6. CASE /\ table' = [s \in TableNames |-> Reduced(table[s], shift)]
           /\ search' = NoSearch
  <2>1. Tracked(table', base', window') /\ (frames = 1 => NoneStale(table'))
    BY <1>1, <1>5, <1>6
  <2>2. search'.cands = {} /\ search' \in [from : Nat, to : Nat, cands : SUBSET Nat]
    BY <1>6 DEF NoSearch
  <2> QED
    BY <1>1, <1>4, <2>1, <2>2 DEF IInv, TablesInv, Tracked
<1>7. CASE \E t \in SearchTables(window) : \E u \in SearchedTables(t, window, len) :
             /\ search' = [from |-> window, to |-> len,
                           cands |-> {t[s].pos : s \in TableNames}]
             /\ table' = [s \in TableNames |-> Reduced(u[s], shift)]
  <2>1. PICK t \in SearchTables(window) : \E u \in SearchedTables(t, window, len) :
             /\ search' = [from |-> window, to |-> len,
                           cands |-> {t[s].pos : s \in TableNames}]
             /\ table' = [s \in TableNames |-> Reduced(u[s], shift)]
    BY <1>7
  <2>2. PICK u \in SearchedTables(t, window, len) :
             /\ search' = [from |-> window, to |-> len,
                           cands |-> {t[s].pos : s \in TableNames}]
             /\ table' = [s \in TableNames |-> Reduced(u[s], shift)]
    BY <2>1
  <2>3. Tracked(t, base, window) /\ (NoneStale(table) => NoneStale(t))
    BY <1>1, SearchTablesTracked
  <2>4. Tracked(u, base, len) /\ (NoneStale(t) => NoneStale(u))
    BY <1>1, <2>3, SearchedTablesTracked
  <2>5. Tracked(table', base', window') /\ (frames = 1 => NoneStale(table'))
    BY <1>5, <2>2, <2>3, <2>4
  <2>6. ASSUME NEW s \in TableNames
        PROVE  /\ t[s].pos \in Nat
               /\ t[s].byte # NoByte => t[s].pos < window
    BY <2>3 DEF Tracked, Entry
  <2>7. search' \in [from : Nat, to : Nat, cands : SUBSET Nat]
    BY <1>1, <2>2, <2>6
  <2>8. frames = 1 => \A m \in search'.cands : m = 0 \/ m < search'.from
    BY <2>2, <2>3, <2>6 DEF NoneStale, IInv, TablesInv
  <2> QED
    BY <1>1, <1>4, <2>5, <2>7, <2>8 DEF IInv, TablesInv, Tracked
<1> QED
  BY <1>6, <1>7 DEF FlushBlock

-----------------------------------------------------------------------------
(***************************************************************************)
(* Each action keeps IInv and is a step of FrameWriter.                    *)
(***************************************************************************)
LEMMA InitIInv == Init => IInv /\ Abstract!Init
<1> SUFFICES ASSUME Init PROVE IInv /\ Abstract!Init
  OBVIOUS
<1>1. dictLen \in Nat /\ window = dictLen /\ base = 0 /\ written = 0 /\ buffer = 0
  BY DEF Init
<1>2. TypeOK
  <2>1. table \in [TableNames -> Entry]
    BY ClearedEntry DEF Init
  <2>2. search \in [from : Nat, to : Nat, cands : SUBSET Nat]
    BY DEF Init, NoSearch
  <2>3. firstBlock \in BOOLEAN /\ headerWritten \in BOOLEAN
    <3>1. firstBlock = (dictLen > 0) /\ headerWritten = FALSE
      BY Zenon DEF Init
    <3>2. (dictLen > 0) \in BOOLEAN
      OBVIOUS
    <3> QED
      BY <3>1, <3>2, Zenon
  <2>4. left \in 0 .. MaxWrite /\ buffer \in 0 .. BlockSize
    BY BlockSizes DEF Init
  <2>5. /\ dictLen \in DictLens /\ state = "Ready" /\ call = "none" /\ hashed = 0
        /\ wire = "start" /\ frames = 1
    BY DEF Init
  <2> QED
    BY <1>1, <2>1, <2>2, <2>3, <2>4, <2>5 DEF TypeOK, Calls
<1>3. WindowCoversHistory
  BY <1>1 DEF WindowCoversHistory
<1>4. Account /\ Control
  BY DEF Init, Account, Control, BeforeHeader
<1>5. TablesInv
  BY ClearedEntry DEF Init, TablesInv, Tracked, NoneStale, NoSearch
<1>6. Abstract!Init
  BY DEF Init, Abstract!Init
<1> QED
  BY <1>2, <1>3, <1>4, <1>5, <1>6 DEF IInv

(* TablesInv and WindowCoversHistory speak of window and tables only, and  *)
(* of whether the frame is torn.                                           *)
LEMMA SameWindow ==
  ASSUME IInv,
         UNCHANGED << dictLen, window, base, table, search, written, frames >>,
         wire' # "torn" => wire # "torn"
  PROVE  TablesInv' /\ WindowCoversHistory'
<1>1. TablesInv /\ WindowCoversHistory
  BY DEF IInv
<1>2. TablesInv'
  BY <1>1 DEF TablesInv, Tracked, NoneStale
<1>3. WindowCoversHistory'
  BY <1>1 DEF WindowCoversHistory
<1> QED
  BY <1>2, <1>3

LEMMA StartStep ==
  ASSUME IInv, NEW pc, Start(pc), left' \in 0 .. MaxWrite,
         \/ pc = "write.header"
         \/ pc \in {"finish.header", "reset.header"} /\ left' = left
         \/ pc = FlushEntry /\ left' = left
  PROVE  IInv' /\ UNCHANGED Abstract!vars
<1>1. /\ TypeOK /\ Account /\ Control
      /\ UNCHANGED << dictLen, buffer, headerWritten, firstBlock, window, base, table,
                      search, hashed, wire, written, frames >>
      /\ state = "Ready" /\ call = "none" /\ state' = "Failed" /\ call' = pc
  BY DEF IInv, Start
<1>2. TablesInv' /\ WindowCoversHistory'
  BY <1>1, SameWindow
<1>3. call' \in Calls
  BY <1>1 DEF Calls, FlushEntry
<1>4. TypeOK'
  BY <1>1, <1>3 DEF TypeOK
<1>5. buffer \in Nat /\ written \in Nat /\ hashed \in Nat /\ left \in Nat /\ left = 0
  BY <1>1, BlockSizes DEF TypeOK, Control
<1>6. Account'
  <2>1. /\ wire \in {"start", "blocks"} /\ (headerWritten <=> wire = "blocks")
        /\ wire = "start" => buffer = 0
        /\ hashed = written + buffer
    BY <1>1 DEF Account
  <2>2. CASE call' \in BeforeHeader
    BY <1>1, <2>1, <2>2 DEF Account, BeforeHeader
  <2>3. CASE call' = "flush.block" /\ buffer > 0
    BY <1>1, <1>5, <2>1, <2>3 DEF Account, BeforeHeader
  <2>4. CASE call' = "flush.inner" /\ buffer = 0
    BY <1>1, <1>5, <2>1, <2>4 DEF Account, BeforeHeader
  <2> QED
    BY <1>1, <1>5, <2>2, <2>3, <2>4 DEF BeforeHeader, FlushEntry
<1>7. Control'
  BY <1>1, <1>5 DEF Account, Control, FlushEntry
<1> QED
  BY <1>1, <1>2, <1>4, <1>6, <1>7 DEF IInv, Abstract!vars

LEMMA HeaderStep ==
  ASSUME IInv, NEW pc, NEW next, WriteHeader(pc, next),
         << pc, next >> \in {<< "write.header", "write.fill" >>,
                             << "finish.header", "finish.block" >>,
                             << "reset.header", "reset.block" >>}
  PROVE  IInv' /\ [Abstract!Next]_(Abstract!vars)
<1>1. /\ TypeOK /\ Account /\ Control
      /\ UNCHANGED << dictLen, state, buffer, firstBlock, window, base, table, search,
                      written, frames >>
      /\ call = pc /\ pc \in BeforeHeader
      /\ headerWritten' = (wire' # "torn")
  BY DEF IInv, WriteHeader, BeforeHeader
<1>2. /\ wire \in {"start", "blocks"} /\ (headerWritten <=> wire = "blocks")
      /\ wire = "start" => buffer = 0
      /\ hashed = written + buffer
      /\ state = "Failed"
  BY <1>1 DEF Account, Control, TypeOK, BeforeHeader
<1>3. TablesInv' /\ WindowCoversHistory'
  BY <1>1, <1>2, SameWindow
<1>4. buffer \in Nat /\ written \in Nat /\ hashed \in Nat /\ left \in 0 .. MaxWrite
  BY <1>1, BlockSizes DEF TypeOK
<1>5. pc # "write.header" => left = 0
  BY <1>1, <1>4 DEF Control, BeforeHeader
<1>6. CASE call' = next /\ left' = left /\ hashed' = hashed + left /\ wire' = "blocks"
  <2>1. TypeOK'
    <3>1. hashed' \in Nat /\ left' \in 0 .. MaxWrite
      BY <1>4, <1>6
    <3> QED
      BY <1>1, <1>6, <3>1 DEF TypeOK, Calls
  <2>2. Account'
    <3>1. headerWritten' /\ hashed' = written' + buffer' + left'
      BY <1>1, <1>2, <1>4, <1>6
    <3>2. call' # "write.fill" => hashed' = written' + buffer'
      BY <1>1, <1>2, <1>4, <1>5, <1>6
    <3>3. state' # "Ready" /\ call' \in {"write.fill", "finish.block", "reset.block"}
      BY <1>1, <1>2, <1>6
    <3> QED
      BY <1>6, <3>1, <3>2, <3>3 DEF Account, BeforeHeader
  <2>3. Control'
    BY <1>1, <1>2, <1>4, <1>5, <1>6 DEF Control
  <2>4. Abstract!Hand \/ Abstract!HeaderAndHand
    BY <1>1, <1>2, <1>4, <1>6 DEF Abstract!Hand, Abstract!HeaderAndHand
  <2> QED
    BY <1>3, <2>1, <2>2, <2>3, <2>4 DEF IInv, Abstract!Next
<1>7. CASE ~headerWritten /\ WriterFails /\ UNCHANGED hashed
  <2>1. TypeOK'
    BY <1>1, <1>4, <1>7 DEF TypeOK, WriterFails, Calls
  <2>2. Account' /\ Control'
    BY <1>1, <1>2, <1>7 DEF Account, Control, BeforeHeader, WriterFails
  <2>3. Abstract!Tear
    BY <1>1, <1>2, <1>7 DEF Abstract!Tear, WriterFails
  <2> QED
    BY <1>3, <2>1, <2>2, <2>3 DEF IInv, Abstract!Next
<1> QED
  BY <1>2, <1>6, <1>7 DEF WriteHeader, Wrote

LEMMA FillStep ==
  ASSUME IInv, FillBuffer
  PROVE  IInv' /\ UNCHANGED Abstract!vars
<1>1. /\ TypeOK /\ Account /\ Control
      /\ UNCHANGED << dictLen, state, headerWritten, firstBlock, window, base, table,
                      search, hashed, wire, written, frames >>
      /\ call = "write.fill" /\ left > 0
      /\ buffer' = buffer + Portion /\ left' = left - Portion
      /\ call' \in {"write.block", "write.fill"}
  BY DEF IInv, FillBuffer
<1>2. TablesInv' /\ WindowCoversHistory'
  BY <1>1, SameWindow
<1>3. /\ buffer \in 0 .. BlockSize /\ left \in 0 .. MaxWrite /\ BlockSize \in Nat
      /\ written \in Nat /\ hashed \in Nat
  BY <1>1, BlockSizes DEF TypeOK
<1>4. Portion \in 0 .. left /\ Portion <= BlockSize - buffer
  BY <1>3 DEF Portion
<1>5. buffer' \in 0 .. BlockSize /\ left' \in 0 .. MaxWrite /\ buffer' + left' = buffer + left
  <2> HIDE DEF Portion
  <2> QED
    BY <1>1, <1>3, <1>4
<1>6. TypeOK'
  <2>1. (buffer \in 0 .. BlockSize)'
    BY <1>5 DEF BlockSize
  <2> QED
    BY <1>1, <1>5, <2>1 DEF TypeOK, Calls
<1>7. Account'
  BY <1>1, <1>3, <1>5 DEF Account, Control, BeforeHeader
<1>8. Control'
  BY <1>1 DEF Control
<1> QED
  BY <1>1, <1>2, <1>6, <1>7, <1>8 DEF IInv, Abstract!vars

(* A block in the middle of the frame, and the last one.                   *)
LEMMA BlockStep ==
  ASSUME IInv, NEW last \in BOOLEAN, NEW next, call # "none", FlushBlock(last, next),
         << call, last, next >> \in
           {<< "write.block", FALSE, "write.fill" >>, << "flush.block", FALSE, "flush.inner" >>,
            << "finish.block", TRUE, "finish.checksum" >>,
            << "reset.block", TRUE, "reset.checksum" >>}
  PROVE  IInv' /\ [Abstract!Next]_(Abstract!vars)
<1>1. /\ TypeOK /\ Account /\ Control /\ WindowCoversHistory
      /\ UNCHANGED << dictLen, state, headerWritten, hashed, frames >>
      /\ buffer > 0 /\ buffer' = 0 /\ firstBlock' = FALSE
  BY DEF IInv, FlushBlock
<1>2. /\ buffer \in Nat /\ written \in Nat /\ hashed \in Nat /\ left \in 0 .. MaxWrite
      /\ dictLen \in Nat
  BY <1>1, BlockSizes DEF TypeOK
<1>3. /\ wire = "blocks" /\ headerWritten /\ hashed = written + buffer + left
      /\ call # "write.block" => left = 0
  <2>1. call \in {"write.block", "flush.block", "finish.block", "reset.block"}
    OBVIOUS
  <2>2. call # "write.block" => left = 0
    BY <1>1, <1>2, <2>1 DEF Control
  <2>3. wire = "blocks" /\ headerWritten
    BY <1>1, <2>1 DEF Account
  <2>4. hashed = written + buffer + left
    BY <1>1, <1>2, <2>1, <2>2 DEF Account
  <2> QED
    BY <2>2, <2>3, <2>4
<1>4. state = "Failed"
  BY <1>1 DEF Control, TypeOK
<1>5. /\ window' \in Nat /\ base' \in Nat
      /\ base' + window' = dictLen + written + buffer
      /\ base' > 0 => window' >= Window
      /\ window' <= 2 * Window
      /\ table' \in [TableNames -> Entry]
      /\ search' \in [from : Nat, to : Nat, cands : SUBSET Nat]
      /\ TablesInv'
  BY <1>3, BlockWindow
<1>6. ASSUME wire' \in {"blocks", "checksum", "torn"}, call' \in Calls,
             left' \in 0 .. MaxWrite, written' \in Nat
      PROVE  TypeOK'
  <2>1. (buffer \in 0 .. BlockSize)'
    BY <1>1, BlockSizes DEF BlockSize
  <2> QED
    BY <1>1, <1>5, <1>6, <2>1 DEF TypeOK
<1>7. CASE /\ Wrote(IF last THEN "checksum" ELSE "blocks", next)
           /\ written' = written + buffer /\ left' = left
  <2>1. /\ written' \in Nat /\ written' > written /\ written' <= hashed'
        /\ hashed' = written' + buffer' + left'
        /\ call' # "write.fill" => hashed' = written'
        /\ call' = next /\ wire' = IF last THEN "checksum" ELSE "blocks"
    <3>1. call' = next /\ wire' = IF last THEN "checksum" ELSE "blocks"
      BY <1>7 DEF Wrote
    <3>2. next # "write.fill" => call # "write.block"
      OBVIOUS
    <3>3. /\ written' = written + buffer /\ hashed' = hashed /\ left' = left /\ buffer' = 0
          /\ buffer > 0
      BY <1>1, <1>7
    <3>4. written' \in Nat /\ written' > written /\ hashed' = written' + buffer' + left'
      BY <1>2, <1>3, <3>3
    <3> QED
      BY <1>2, <1>3, <3>1, <3>2, <3>3, <3>4
  <2>2. TypeOK'
    BY <1>2, <1>6, <1>7, <2>1 DEF Calls
  <2>3. WindowCoversHistory'
    <3>1. dictLen' + written' = dictLen + written + buffer
      BY <1>1, <1>2, <1>7
    <3> QED
      BY <1>5, <3>1 DEF WindowCoversHistory
  <2>4. Account'
    BY <1>1, <1>3, <1>4, <2>1 DEF Account, BeforeHeader
  <2>5. Control'
    BY <1>1, <1>2, <1>3, <1>4, <1>7, <2>1 DEF Control
  <2>6. CASE last
    <3>1. Abstract!LastBlock
      BY <1>1, <1>3, <2>1, <2>6 DEF Abstract!LastBlock
    <3> QED
      BY <1>5, <2>2, <2>3, <2>4, <2>5, <3>1 DEF IInv, Abstract!Next
  <2>7. CASE ~last
    <3>1. Abstract!Block
      BY <1>1, <1>2, <1>3, <2>1, <2>7 DEF Abstract!Block
    <3> QED
      BY <1>5, <2>2, <2>3, <2>4, <2>5, <3>1 DEF IInv, Abstract!Next
  <2> QED
    BY <2>6, <2>7
<1>8. CASE WriterFails /\ written' = written
  <2>1. TypeOK'
    BY <1>2, <1>6, <1>8 DEF WriterFails, Calls
  <2>2. WindowCoversHistory'
    BY <1>8 DEF WindowCoversHistory, WriterFails
  <2>3. Account' /\ Control'
    BY <1>1, <1>4, <1>8 DEF Account, Control, BeforeHeader, WriterFails
  <2>4. Abstract!Tear
    BY <1>1, <1>3, <1>8 DEF Abstract!Tear, WriterFails
  <2> QED
    BY <1>5, <2>1, <2>2, <2>3, <2>4 DEF IInv, Abstract!Next
<1> QED
  BY <1>7, <1>8 DEF FlushBlock

LEMMA EmptyLastStep ==
  ASSUME IInv, NEW next, FlushEmptyLast(next),
         << call, next >> \in {<< "finish.block", "finish.checksum" >>,
                               << "reset.block", "reset.checksum" >>}
  PROVE  IInv' /\ [Abstract!Next]_(Abstract!vars)
<1>1. /\ TypeOK /\ Account /\ Control
      /\ UNCHANGED << dictLen, state, buffer, headerWritten, firstBlock, window, base,
                      table, search, hashed, written, frames >>
      /\ buffer = 0
  BY DEF IInv, FlushEmptyLast
<1>2. written \in Nat /\ hashed \in Nat /\ left \in 0 .. MaxWrite
  BY <1>1 DEF TypeOK
<1>3. /\ wire = "blocks" /\ hashed = written /\ left = 0
      /\ state = "Failed"
  BY <1>1, <1>2 DEF Account, Control, TypeOK
<1>4. TablesInv' /\ WindowCoversHistory'
  BY <1>1, <1>3, SameWindow
<1>5. CASE wire' = "checksum" /\ call' = next /\ left' = left
  <2>1. TypeOK'
    BY <1>1, <1>5 DEF TypeOK, Calls
  <2>2. Account' /\ Control'
    BY <1>1, <1>3, <1>5 DEF Account, Control, BeforeHeader
  <2>3. Abstract!LastBlock
    BY <1>1, <1>3, <1>5 DEF Abstract!LastBlock
  <2> QED
    BY <1>4, <2>1, <2>2, <2>3 DEF IInv, Abstract!Next
<1>6. CASE WriterFails
  <2>1. TypeOK'
    BY <1>1, <1>2, <1>6 DEF TypeOK, Calls, WriterFails
  <2>2. Account' /\ Control'
    BY <1>1, <1>3, <1>6 DEF Account, Control, BeforeHeader, WriterFails
  <2>3. Abstract!Tear
    BY <1>1, <1>3, <1>6 DEF Abstract!Tear, WriterFails
  <2> QED
    BY <1>4, <2>1, <2>2, <2>3 DEF IInv, Abstract!Next
<1> QED
  BY <1>5, <1>6 DEF FlushEmptyLast, Wrote

LEMMA EndWriteStep ==
  ASSUME IInv, EndWrite
  PROVE  IInv' /\ UNCHANGED Abstract!vars
<1>1. /\ TypeOK /\ Account /\ Control
      /\ UNCHANGED << dictLen, left, buffer, headerWritten, firstBlock, window, base, table,
                      search, hashed, wire, written, frames >>
      /\ call = "write.fill" /\ left = 0 /\ call' = "none" /\ state' = "Ready"
  BY DEF IInv, EndWrite, Succeed
<1>2. TablesInv' /\ WindowCoversHistory'
  BY <1>1, SameWindow
<1>3. TypeOK'
  BY <1>1 DEF TypeOK, Calls
<1>4. Account'
  <2>1. wire = "blocks" /\ headerWritten /\ hashed = written + buffer
    BY <1>1, BlockSizes DEF Account, TypeOK
  <2> QED
    BY <1>1, <2>1 DEF Account, BeforeHeader
<1>5. Control'
  BY <1>1, <1>4 DEF Account, Control
<1> QED
  BY <1>1, <1>2, <1>3, <1>4, <1>5 DEF IInv, Abstract!vars

LEMMA SyncStep ==
  ASSUME IInv, SyncInner
  PROVE  IInv' /\ [Abstract!Next]_(Abstract!vars)
<1>1. /\ TypeOK /\ Account /\ Control
      /\ UNCHANGED << dictLen, buffer, headerWritten, firstBlock, window, base, table,
                      search, hashed, written, frames >>
      /\ call = "flush.inner"
  BY DEF IInv, SyncInner
<1>2. /\ wire \in {"start", "blocks"} /\ (headerWritten <=> wire = "blocks")
      /\ buffer = 0 /\ hashed = written /\ written \in Nat
      /\ state = "Failed" /\ left \in 0 .. MaxWrite /\ left = 0
  BY <1>1 DEF Account, Control, TypeOK
<1>3. TablesInv' /\ WindowCoversHistory'
  BY <1>1, <1>2, SameWindow
<1>4. CASE call' = "none" /\ state' = "Ready" /\ left' = left /\ wire' = wire
  <2>1. TypeOK'
    BY <1>1, <1>4 DEF TypeOK, Calls
  <2>2. Account'
    BY <1>1, <1>2, <1>4 DEF Account, BeforeHeader
  <2>3. Control'
    BY <1>1, <1>2, <1>4 DEF Control
  <2> QED
    BY <1>1, <1>3, <1>4, <2>1, <2>2, <2>3 DEF IInv, Abstract!vars
<1>5. CASE WriterFails /\ state' = state
  <2>1. TypeOK'
    BY <1>1, <1>2, <1>5 DEF TypeOK, Calls, WriterFails
  <2>2. Account' /\ Control'
    BY <1>1, <1>2, <1>5 DEF Account, Control, BeforeHeader, WriterFails
  <2>3. Abstract!Tear
    BY <1>1, <1>2, <1>5 DEF Abstract!Tear, WriterFails
  <2> QED
    BY <1>3, <2>1, <2>2, <2>3 DEF IInv, Abstract!Next
<1> QED
  BY <1>4, <1>5 DEF SyncInner, Succeed

LEMMA ChecksumStep ==
  ASSUME IInv, NEW pc, NEW next, WriteChecksum(pc, next),
         << pc, next >> \in {<< "finish.checksum", "consumed" >>,
                             << "reset.checksum", "reset.swap" >>}
  PROVE  IInv' /\ [Abstract!Next]_(Abstract!vars)
<1>1. /\ TypeOK /\ Account /\ Control
      /\ UNCHANGED << dictLen, buffer, headerWritten, firstBlock, window, base, table,
                      search, hashed, written, frames >>
      /\ call = pc /\ call \in {"finish.checksum", "reset.checksum"}
  BY DEF IInv, WriteChecksum
<1>2. /\ wire = "checksum" /\ buffer = 0 /\ hashed = written
      /\ left = 0 /\ left \in 0 .. MaxWrite /\ state = "Failed"
  BY <1>1 DEF Account, Control, TypeOK
<1>3. TablesInv' /\ WindowCoversHistory'
  BY <1>1, <1>2, SameWindow
<1>4. CASE wire' = "complete" /\ call' = next /\ state' = "Finished" /\ left' = left
  <2>1. TypeOK'
    BY <1>1, <1>4 DEF TypeOK, Calls
  <2>2. Account' /\ Control'
    BY <1>1, <1>2, <1>4 DEF Account, Control, BeforeHeader
  <2>3. Abstract!Checksum
    BY <1>1, <1>2, <1>4 DEF Abstract!Checksum
  <2> QED
    BY <1>3, <2>1, <2>2, <2>3 DEF IInv, Abstract!Next
<1>5. CASE WriterFails /\ state' = state
  <2>1. TypeOK'
    BY <1>1, <1>2, <1>5 DEF TypeOK, Calls, WriterFails
  <2>2. Account' /\ Control'
    BY <1>1, <1>2, <1>5 DEF Account, Control, BeforeHeader, WriterFails
  <2>3. Abstract!Tear
    BY <1>1, <1>2, <1>5 DEF Abstract!Tear, WriterFails
  <2> QED
    BY <1>3, <2>1, <2>2, <2>3 DEF IInv, Abstract!Next
<1> QED
  BY <1>4, <1>5 DEF WriteChecksum, Wrote

(* The tables outlive the frame; no entry of them stands for a byte of the *)
(* next one.                                                               *)
LEMMA SwapStep ==
  ASSUME IInv, SwapWriter
  PROVE  IInv' /\ [Abstract!Next]_(Abstract!vars)
<1>1. /\ TypeOK /\ Account /\ Control /\ TablesInv
      /\ UNCHANGED << dictLen, left, buffer >>
      /\ call = "reset.swap" /\ call' = "none" /\ state' = "Ready"
      /\ wire' = "start" /\ written' = 0 /\ hashed' = 0
      /\ window' = dictLen /\ base' = 0 /\ frames' = frames + 1
      /\ table' = TablesAfterReset /\ search' = NoSearch
  BY DEF IInv, SwapWriter, Succeed
<1>2. headerWritten' = FALSE /\ firstBlock' \in BOOLEAN
  <2>1. headerWritten' = FALSE /\ firstBlock' = (dictLen > 0)
    BY Zenon DEF SwapWriter
  <2>2. (dictLen > 0) \in BOOLEAN
    OBVIOUS
  <2> QED
    BY <2>1, <2>2, Zenon
<1>3. wire = "complete" /\ buffer = 0 /\ left = 0 /\ dictLen \in Nat /\ frames \in Nat
  BY <1>1 DEF Account, Control, TypeOK
<1>4. Tracked(table', base', window')
  <2>1. ASSUME NEW s \in TableNames
        PROVE  LET e == TablesAfterReset[s] IN
                 /\ e \in Entry /\ e.byte = NoByte
                 /\ s \in LongTables => e.pos = 0
    <3>1. table[s] \in Entry
      BY <1>1 DEF TypeOK
    <3>2. CASE s \in LongTables
      BY <3>2, ClearedEntry DEF TablesAfterReset
    <3>3. CASE s \notin LongTables
      BY <3>1, <3>3 DEF TablesAfterReset, Entry
    <3> QED
      BY <3>2, <3>3
  <2>2. TablesAfterReset \in [TableNames -> Entry]
    BY <2>1 DEF TablesAfterReset
  <2> QED
    BY <1>1, <2>1, <2>2 DEF Tracked
<1>5. search' \in [from : Nat, to : Nat, cands : SUBSET Nat]
  BY <1>1 DEF NoSearch
<1>6. TypeOK'
  <2>1. table' \in [TableNames -> Entry]
    BY <1>4 DEF Tracked
  <2>2. (buffer \in 0 .. BlockSize)' /\ (left \in 0 .. MaxWrite)' /\ (dictLen \in DictLens)'
    BY <1>1 DEF TypeOK, BlockSize
  <2>3. headerWritten' \in BOOLEAN /\ firstBlock' \in BOOLEAN
    BY <1>2
  <2>4. window' \in Nat /\ base' \in Nat /\ frames' \in Nat
    BY <1>1, <1>3
  <2> QED
    BY <1>1, <1>5, <2>1, <2>2, <2>3, <2>4 DEF TypeOK, Calls
<1>7. TablesInv'
  BY <1>1, <1>3, <1>4 DEF TablesInv
<1>8. WindowCoversHistory'
  BY <1>1, <1>3 DEF WindowCoversHistory
<1>9. Account' /\ Control'
  BY <1>1, <1>2, <1>3 DEF Account, Control, BeforeHeader
<1>10. Abstract!Renew
  BY <1>1, <1>3 DEF Abstract!Renew
<1> QED
  BY <1>6, <1>7, <1>8, <1>9, <1>10 DEF IInv, Abstract!Next

LEMMA Steps == IInv /\ [Next]_vars => IInv' /\ [Abstract!Next]_(Abstract!vars)
<1> SUFFICES ASSUME IInv, [Next]_vars
             PROVE  IInv' /\ [Abstract!Next]_(Abstract!vars)
  OBVIOUS
<1>1. left \in 0 .. MaxWrite
  BY DEF IInv, TypeOK
<1>2. ASSUME NEW n \in 0 .. MaxWrite, StartWrite(n)
      PROVE  IInv' /\ UNCHANGED Abstract!vars
  BY <1>2, StartStep DEF StartWrite
<1>3. CASE StartFlush
  BY <1>1, <1>3, StartStep DEF StartFlush
<1>4. CASE StartFinish
  BY <1>1, <1>4, StartStep DEF StartFinish
<1>5. CASE StartReset
  BY <1>1, <1>5, StartStep DEF StartReset
<1>6. CASE \/ WriteHeader("write.header", "write.fill")
           \/ WriteHeader("finish.header", "finish.block")
           \/ WriteHeader("reset.header", "reset.block")
  BY <1>6, HeaderStep
<1>7. CASE FillBuffer
  BY <1>7, FillStep
<1>8. CASE WriteBlock
  BY <1>8, BlockStep DEF WriteBlock
<1>9. CASE EndWrite
  BY <1>9, EndWriteStep
<1>10. CASE SyncBlock
  BY <1>10, BlockStep DEF SyncBlock
<1>11. CASE SyncInner
  BY <1>11, SyncStep
<1>12. CASE LastBlock("finish.block", "finish.checksum")
  BY <1>12, BlockStep, EmptyLastStep DEF LastBlock
<1>13. CASE LastBlock("reset.block", "reset.checksum")
  BY <1>13, BlockStep, EmptyLastStep DEF LastBlock
<1>14. CASE \/ WriteChecksum("finish.checksum", "consumed")
            \/ WriteChecksum("reset.checksum", "reset.swap")
  BY <1>14, ChecksumStep
<1>15. CASE SwapWriter
  BY <1>15, SwapStep
<1>16. CASE UNCHANGED vars
  <2>1. TypeOK' /\ WindowCoversHistory' /\ Account' /\ Control'
    BY <1>16 DEF IInv, vars, TypeOK, WindowCoversHistory, Account, Control, BeforeHeader
  <2>2. TablesInv'
    BY <1>16 DEF IInv, vars, TablesInv, Tracked, NoneStale
  <2> QED
    BY <1>16, <2>1, <2>2 DEF IInv, vars, Abstract!vars
<1> QED
  BY <1>2, <1>3, <1>4, <1>5, <1>6, <1>7, <1>8, <1>9, <1>10, <1>11, <1>12, <1>13, <1>14,
     <1>15, <1>16 DEF Next

-----------------------------------------------------------------------------
(***************************************************************************)
(* Theorems.                                                               *)
(***************************************************************************)

(* The account of the bytes, the places a call can be and the tables hold  *)
(* in every state.                                                         *)
THEOREM Agreement == Spec => []IInv
  BY InitIInv, Steps, PTL DEF Spec

(* The encoder's fields keep their types; no buffer passes a block.        *)
THEOREM TypesHold == Spec => []TypeOK
<1>1. IInv => TypeOK
  BY DEF IInv
<1> QED
  BY <1>1, Agreement, PTL

(* Compaction, dictionary prefill and reset leave every table with         *)
(* positions that name the byte they were stored for.                      *)
THEOREM EntriesKeepTrack == Spec => []EntriesTrackWindow
<1>1. IInv => EntriesTrackWindow
  BY DEF IInv, TablesInv, Tracked, EntriesTrackWindow
<1> QED
  BY <1>1, Agreement, PTL

(* flush_block's compaction never drops the window a decoder still has,    *)
(* and keeps the buffer at two windows.                                    *)
THEOREM HistoryCovered == Spec => []WindowCoversHistory
<1>1. IInv => WindowCoversHistory
  BY DEF IInv
<1> QED
  BY <1>1, Agreement, PTL

(* Whatever the writer does, it receives a frame of FrameWriter: a header, *)
(* blocks that carry what was given, the checksum, and nothing behind an   *)
(* error.                                                                  *)
THEOREM Implements == Spec => ImplementsFrameWriter
  BY InitIInv, Steps, Agreement, PTL DEF Spec, ImplementsFrameWriter, Abstract!Spec

(* A flush that returns has handed the writer every byte it was given.     *)
THEOREM FlushKeepsNothing == Spec => FlushDelivers
<1>1. IInv => (call = "flush.inner" /\ state' = "Ready" => written = hashed)
  BY DEF IInv, Account
<1> QED
  BY <1>1, Agreement, PTL DEF FlushDelivers

(* The assertion of the match finder holds as long as the encoder is not   *)
(* reset: entries it finds lie behind the position it searches from.  Only *)
(* tables that outlive their frame break it.                               *)
THEOREM FirstFrameSearchesBack == Spec => [](frames = 1 => EntriesBehindSearch)
<1>1. IInv => (frames = 1 => EntriesBehindSearch)
  <2> SUFFICES ASSUME IInv, frames = 1, NEW m \in search.cands
               PROVE  m < IF search.from = 0 THEN 1 ELSE search.from
    BY DEF EntriesBehindSearch
  <2>1. m \in Nat /\ search.from \in Nat
    BY DEF IInv, TypeOK
  <2>2. m = 0 \/ m < search.from
    BY DEF IInv, TablesInv
  <2> QED
    BY <2>1, <2>2
<1> QED
  BY <1>1, Agreement, PTL
=============================================================================
