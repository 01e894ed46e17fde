------------------------------ MODULE MCHuffman ------------------------------
(***************************************************************************)
(* Tables for bytes of three bits in which every byte occurs, as those of  *)
(* the tests of the managers, and the table that TestHuffman makes of a    *)
(* buffer, for real bytes.                                                 *)
(***************************************************************************)
EXTENDS Huffman

(* The frequencies of a buffer, as TestBuffersSingle counts them.          *)
Counted(buffer) == [b \in Byte |-> Cardinality({ i \in DOMAIN buffer : buffer[i] = b })]

(* A table from the frequencies of the bytes in turn.                      *)
Listed(list) == [b \in Byte |-> list[b + 1]]

MCTables ==
  { Listed(<<1, 4, 5, 16, 7, 7, 2, 5>>),   \* one code of five bits, a marker of six
    Listed(<<1, 3, 1, 16, 12, 2, 1, 2>>),  \* five such codes, in three second maps
    Listed(<<5, 1, 3, 8, 1, 2, 3, 5>>),    \* many ties
    Listed(<<1, 1, 1, 1, 1, 1, 1, 1>>),    \* flat: the marker's leaf need not be the deepest
    Listed(<<40, 1, 1, 1, 1, 1, 1, 1>>),   \* one byte most of the time
    Listed(<<1, 1, 1, 2, 3, 4, 9, 20>>) }  \* a marker of seven bits: refused
MCMessages == UNION { [1 .. n -> Byte] : n \in 0 .. 3 }
MCStrangers == UNION { [1 .. n -> Byte] : n \in 0 .. 3 }

(* Two bytes of one value, coded with the table made of them.              *)
MCOwnMessage == { <<97, 97>> }
MCOwnTable == { Counted(m) : m \in MCOwnMessage }
MCNone == {}

=============================================================================
