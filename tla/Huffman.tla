------------------------------- MODULE Huffman -------------------------------
(***************************************************************************)
(* The compressor of the delta payloads.  The constructor builds a tree    *)
(* from the game's frequencies, gives every byte a canonical code of the   *)
(* length of its path, adds an end marker one bit longer than any of them  *)
(* and fills the two levels of the decode map; Encode pushes codes into a  *)
(* BitStream; Decode looks up ByteBits + 1 bits at a time and rewinds what *)
(* the code did not use.  Widths follow ByteBits as they do for 8 bits: 9  *)
(* and 7 bits for the decode maps, 16 for the longest code.                *)
(***************************************************************************)
EXTENDS BitStream, FiniteSets, FiniteSetsExt, SequencesExt

CONSTANTS
  Tables,     \* the frequencies a game may return
  Messages,   \* the payloads given to Encode
  Strangers,  \* buffers given to Decode that Encode did not make
  NoMessage   \* what such a buffer stands for

ASSUME HuffmanAssumption ==
  /\ ByteBits > 1
  /\ Tables \subseteq [Byte -> Nat]
  /\ Messages \subseteq Seq(Byte)
  /\ Strangers \subseteq Seq(Byte)
  /\ NoMessage \notin Messages

Eof == Power[ByteBits]       \* the end marker, after the bytes
Symbol == Byte \cup {Eof}

FirstBits == ByteBits + 1    \* 9: the index of the first decode map
SecondBits == ByteBits - 1   \* 7: the index of each second one
MaxCodeBits == WordBits      \* 16: "Class fails if the max code is greater"

VARIABLES
  pc,            \* where the program is
  frequencies,   \* what the game's GetHuffmanFrequencies returned
  trees,         \* the constructor's priority queue
  codes,         \* myEncodeMap, and myEofMarker at Eof
  decodeMap,     \* myDecodeMap
  message,       \* history: the payload that was encoded
  inBuffer,      \* Decode's BitStreamReadOnly
  lastPosition,  \* Decode's lastPosition
  result         \* Decode's result

vars == <<pc, frequencies, trees, codes, decodeMap, message, inBuffer,
          lastPosition, result>>

-----------------------------------------------------------------------------
(* A Node: its frequency, its mode, and how deep below it each symbol is.  *)
Leaf(byte, frequency) ==
  [frequency |-> frequency, mode |-> "Leaf", depth |-> [s \in {byte} |-> 0]]

EofNode == [frequency |-> 1, mode |-> "Eof", depth |-> [s \in {Eof} |-> 0]]

Join(left, right) ==
  [frequency |-> left.frequency + right.frequency,
   mode |-> "Internal",
   depth |-> [s \in DOMAIN left.depth \cup DOMAIN right.depth |->
                1 + IF s \in DOMAIN left.depth THEN left.depth[s]
                                               ELSE right.depth[s]]]

(* Mistake: leaves are taken before joined trees, whatever their frequency.*)
LeavesFirst(left, right) ==
  IF (left.mode = "Internal") = (right.mode = "Internal")
    THEN left.frequency > right.frequency
    ELSE left.mode = "Internal"

(* NodeCompare: left is to be taken from the queue after right.            *)
TakenAfter(left, right) ==
  IF left.frequency = right.frequency
    THEN left.mode = "Leaf" /\ right.mode # "Leaf"
    ELSE left.frequency > right.frequency

(* What top() may be: the order among equals is the library's.             *)
Tops(queue) == { t \in queue : \A u \in queue : ~TakenAfter(t, u) }

(* A byte that never occurs has no leaf, so no code.                       *)
Forest(table) ==
  { Leaf(b, table[b]) : b \in { byte \in Byte : table[byte] > 0 } } \cup {EofNode}

-----------------------------------------------------------------------------
(* The bits GenerateEncodeMap leaves for each byte; 0 without a leaf.      *)
PathBits(tree) ==
  [b \in Byte |-> IF b \in DOMAIN tree.depth THEN tree.depth[b] ELSE 0]

(* Mistake: the end marker is as long as the longest code of a byte.       *)
MarkerAsLong(maxBits) == maxBits

MarkerBits(maxBits) == IF maxBits = 0 THEN 0 ELSE maxBits + 1

Having(bits, length) == { b \in Byte : bits[b] = length }

(* The least code of each length, which counts up from the codes of the    *)
(* length before and is shifted, a uint16_t.                               *)
FirstCodes(bits) ==
  LET first[length \in 1 .. Max(Range(bits)) + 1] ==
        IF length = 1 THEN 0
        ELSE (2 * (first[length - 1] + Cardinality(Having(bits, length - 1))))
               % Power[WordBits]
  IN  first

(* GenerateCanonicalEncodeMap: codes of one length count up in the order   *)
(* of the bytes.                                                           *)
CanonicalCodes(tree) ==
  LET bits == PathBits(tree)
      maxBits == Max(Range(bits))
      first == FirstCodes(bits)
      Before(b) == { c \in Having(bits, bits[b]) : c < b }
  IN  [s \in Symbol |->
         IF s = Eof
           THEN [value |-> IF maxBits = 0 THEN 0 ELSE first[maxBits + 1],
                 bits |-> MarkerBits(maxBits)]
         ELSE IF bits[s] = 0
           THEN [value |-> 0, bits |-> 0]
         ELSE [value |-> first[bits[s]] + Cardinality(Before(s)), bits |-> bits[s]]]

(* GetXBitBytesStartingWith                                                *)
StartingWith(value, bits, totalBits) ==
  IF bits > 0 /\ bits < totalBits
    THEN LET free == Power[totalBits - bits]
         IN  { value * free + i : i \in 0 .. free - 1 }
    ELSE {value}

(* What a ValueAndBits of the decode map says: the symbol and the bits it  *)
(* takes, or the second map to go on with.                                 *)
Unset == [kind |-> "Symbol", value |-> 0, bits |-> 0]
Found(symbol, bits) == [kind |-> "Symbol", value |-> symbol, bits |-> bits]
Continue(top) == [kind |-> "Second", value |-> top, bits |-> FirstBits]

(* A code that the first decode map has no room for is cut in two.         *)
Used(coding) == { s \in Symbol : coding[s].bits > 0 }
IsLong(code) == code.bits > FirstBits
RestBits(code) == code.bits - FirstBits
TopBits(code) == code.value \div Power[RestBits(code)]

FirstIndexes(code) ==
  IF IsLong(code) THEN {TopBits(code)}
                  ELSE StartingWith(code.value, code.bits, FirstBits)

SecondIndexes(code) ==
  StartingWith(code.value % Power[RestBits(code)], RestBits(code), SecondBits)

(* Symbols are entered in turn, and a later one would replace an earlier.  *)
FirstEntry(coding, i) ==
  LET writers == { s \in Used(coding) : i \in FirstIndexes(coding[s]) }
      s == Max(writers)
  IN  IF writers = {} THEN Unset
      ELSE IF IsLong(coding[s]) THEN Continue(TopBits(coding[s]))
      ELSE Found(s, coding[s].bits)

LongCodes(coding) == { s \in Used(coding) : IsLong(coding[s]) }

SecondEntry(coding, top, i) ==
  LET writers == { s \in LongCodes(coding) :
                     TopBits(coding[s]) = top /\ i \in SecondIndexes(coding[s]) }
      s == Max(writers)
  IN  IF writers = {} THEN Unset ELSE Found(s, RestBits(coding[s]))

(* GenerateDecodeMap.  Second maps are named by the top bits of their      *)
(* codes, which the code numbers in order of their first use.              *)
DecodeMapOf(coding) ==
  [first |-> [i \in 0 .. Power[FirstBits] - 1 |-> FirstEntry(coding, i)],
   second |-> [top \in { TopBits(coding[s]) : s \in LongCodes(coding) } |->
                 [i \in 0 .. Power[SecondBits] - 1 |->
                    SecondEntry(coding, top, i)]]]

(* Encode: the codes of the bytes, then the end marker.                    *)
Encoded(coding, payload) ==
  LET symbols == Append(payload, Eof)
      stream[n \in 0 .. Len(symbols)] ==
        IF n = 0 THEN EmptyStream
        ELSE PushWord(stream[n - 1], coding[symbols[n]].value,
                      coding[symbols[n]].bits)
  IN  TakeBuffer(stream[Len(symbols)])

-----------------------------------------------------------------------------
Init ==
  /\ pc = "building"
  /\ frequencies \in Tables
  /\ trees = Forest(frequencies)
  /\ codes = << >>
  /\ decodeMap = << >>
  /\ message = NoMessage
  /\ inBuffer = Reader(<< >>)
  /\ lastPosition = 0
  /\ result = << >>

(* One turn of the constructor's loop: the two least frequent are joined.  *)
JoinTrees ==
  /\ pc = "building"
  /\ Cardinality(trees) > 1
  /\ \E left \in Tops(trees) : \E right \in Tops(trees \ {left}) :
       trees' = (trees \ {left, right}) \cup {Join(left, right)}
  /\ UNCHANGED <<pc, frequencies, codes, decodeMap, message, inBuffer,
                 lastPosition, result>>

(* The rest of the constructor, which throws if a code is too long.        *)
GenerateMaps ==
  /\ pc = "building"
  /\ \E tree \in trees :
       /\ trees = {tree}
       /\ codes' = CanonicalCodes(tree)
  /\ IF \E s \in Symbol : codes'[s].bits > MaxCodeBits
       THEN pc' = "refused" /\ UNCHANGED decodeMap
       ELSE pc' = "ready" /\ decodeMap' = DecodeMapOf(codes')
  /\ UNCHANGED <<frequencies, trees, message, inBuffer, lastPosition, result>>

(* Decode is called, with what Encode returned or with something else.     *)
BeginDecode(source, buffer) ==
  /\ pc = "ready"
  /\ pc' = "decoding"
  /\ message' = source
  /\ inBuffer' = Reader(buffer)
  /\ UNCHANGED <<frequencies, trees, codes, decodeMap, lastPosition, result>>

DecodeEncoded == \E m \in Messages : BeginDecode(m, Encoded(codes, m))
DecodeStranger == \E b \in Strangers : BeginDecode(NoMessage, b)

(* Mistake: nobody looks whether the position has moved.                   *)
AlwaysGoesOn(position) == TRUE

(* "making sure we're always moving forward across the buffer"             *)
GoesOn(position) == position > lastPosition

(* The end of a turn of Decode's loop, with a byte and the stream after it.*)
Take(byte, reader) ==
  /\ result' = Append(result, byte)
  /\ inBuffer' = reader
  /\ IF GoesOn(reader.index)
       THEN lastPosition' = reader.index /\ UNCHANGED pc
       ELSE pc' = "decoded" /\ UNCHANGED lastPosition

Stop(outcome, reader) ==
  /\ pc' = outcome
  /\ inBuffer' = reader
  /\ UNCHANGED <<lastPosition, result>>

(* One turn of Decode's loop, or its end.                                  *)
DecodeStep ==
  /\ pc = "decoding"
  /\ LET pulled == PullWord(inBuffer, FirstBits)
         codeWord == decodeMap.first[pulled.result]
         more == PullByte(pulled.reader, SecondBits)
         second == decodeMap.second[codeWord.value][more.result]
     IN  IF inBuffer.index >= BitCount(inBuffer)
           THEN Stop("decoded", inBuffer)
         ELSE IF codeWord.bits = 0
           THEN Stop("corrupt", pulled.reader)
         ELSE IF codeWord.kind = "Symbol"
           THEN IF codeWord.value = Eof
                  THEN Stop("decoded", pulled.reader)
                  ELSE Take(codeWord.value, Rewind(pulled.reader, FirstBits - codeWord.bits))
         ELSE IF second.value = Eof
           THEN Stop("decoded", more.reader)
         ELSE Take(second.value, Rewind(more.reader, SecondBits - second.bits))
  /\ UNCHANGED <<frequencies, trees, codes, decodeMap, message>>

Next == JoinTrees \/ GenerateMaps \/ DecodeEncoded \/ DecodeStranger \/ DecodeStep

Spec == Init /\ [][Next]_vars

-----------------------------------------------------------------------------
(* Every variable has its type, and the read index stays in the buffer.    *)
TypeOK ==
  /\ pc \in {"building", "refused", "ready", "decoding", "decoded", "corrupt"}
  /\ frequencies \in Tables
  /\ message \in Messages \cup {NoMessage}
  /\ inBuffer.buffer \in Seq(Byte)
  /\ inBuffer.index \in 0 .. BitCount(inBuffer)
  /\ lastPosition \in 0 .. BitCount(inBuffer)
  /\ result \in Seq(Byte)

(* What was encoded is what is decoded, byte by byte, whatever the lengths *)
(* of the codes, the bytes they lie across and the padding behind the end  *)
(* marker; Decode does not throw on it either.                             *)
RoundTrip ==
  message # NoMessage =>
    /\ IsPrefix(result, message)
    /\ pc # "corrupt"
    /\ pc = "decoded" => result = message

(* No code begins another, the end marker's included, so that the entries  *)
(* of the decode maps do not overwrite each other.                         *)
PrefixFree ==
  pc = "ready" =>
    \A s, t \in { u \in Symbol : codes[u].bits > 0 } :
      s # t /\ codes[s].bits <= codes[t].bits
        => codes[t].value \div Power[codes[t].bits - codes[s].bits] # codes[s].value

(* The fewest bits any prefix code takes for symbols with these            *)
(* frequencies, in falling order: best[i, open] when i symbols have their  *)
(* length and open nodes of the next depth are free, of which some become  *)
(* leaves and the others have two children.                                *)
FewestBits(falling) ==
  LET n == Len(falling)
      rest(i) == MapThenSumSet(LAMBDA k : falling[k], i + 1 .. n)
      best[i \in 0 .. n, open \in 1 .. n] ==
        IF open >= n - i THEN 0
        ELSE Min({ rest(i + leaves) + best[i + leaves, AtMost(2 * (open - leaves), n)] :
                     leaves \in 0 .. open - 1 })
  IN  best[0, 1]

(* The tree is the best there is: no prefix code takes fewer bits for the  *)
(* bytes of the table and one end marker.                                  *)
TreeIsOptimal ==
  pc = "ready" =>
    \A tree \in trees :
      LET Frequency(s) == IF s = Eof THEN 1 ELSE frequencies[s]
          inTree == SelectSeq([i \in 1 .. Eof + 1 |-> i - 1],
                              LAMBDA s : s \in DOMAIN tree.depth)
          falling == SortSeq([i \in DOMAIN inTree |-> Frequency(inTree[i])], >)
      IN  MapThenSumSet(LAMBDA s : Frequency(s) * tree.depth[s], DOMAIN tree.depth)
            = FewestBits(falling)

(* Decode ends on every buffer, one that is no encoding included ("so we   *)
(* don't loop forever"): it yields no more bytes than the buffer has bits. *)
DecodeBounded == Len(result) <= BitCount(inBuffer)

=============================================================================
