----------------------------- MODULE BlockTables -----------------------------
(***************************************************************************)
(* What a compressed block says about entropy tables, and which tables are *)
(* in force after it: one Huffman table for the literals and one FSE table *)
(* for each kind of sequence code.  A frame starts with none of them, or   *)
(* with those of its dictionary.  A literals section brings a new table    *)
(* ("Compressed") or uses the one in force ("Treeless"); a sequences       *)
(* section names for every kind the predefined table, a new one ("FSE", or *)
(* "RLE" with a single code) or the one in force ("Repeat").               *)
(*                                                                         *)
(* BlockEncoder must stay in step with these rules, TableStore must        *)
(* implement them.                                                         *)
(***************************************************************************)
EXTENDS Naturals

CONSTANTS Kinds,        \* literal lengths, offsets, match lengths
          Built,        \* the tables an encoder may build
          DictTable,    \* a table of the dictionary
          PredefTable,  \* a predefined table
          NoTable       \* no table is in force

Tables == Built \cup {DictTable, PredefTable}

ASSUME TablesAssumption == NoTable \notin Tables /\ DictTable # PredefTable

VARIABLES literals,     \* the Huffman table in force
          sequences     \* kind -> the FSE table in force

formatVars == <<literals, sequences>>

SequenceModes == {"Predefined", "RLE", "FSE", "Repeat"}

\* A section and the table its bits are coded with.  The table is in the section
\* itself when the mode brings one.
LiteralsSections ==
    [mode : {"Raw", "RLE"}, table : {NoTable}] \cup
    [mode : {"Compressed", "Treeless"}, table : Tables]

SequenceSections == [mode : SequenceModes, table : Tables]

LiteralsAfter(t, s) == IF s.mode = "Compressed" THEN s.table ELSE t

SequenceAfter(t, s) ==
    CASE s.mode = "Predefined"     -> PredefTable
      [] s.mode \in {"RLE", "FSE"} -> s.table
      [] s.mode = "Repeat"         -> t

------------------------------------------------------------------------------
FrameTables(d) ==
    /\ literals' = IF d THEN DictTable ELSE NoTable
    /\ sequences' = [k \in Kinds |-> IF d THEN DictTable ELSE NoTable]

Literals(s) ==
    /\ s.mode = "Treeless" => literals # NoTable
    /\ literals' = LiteralsAfter(literals, s)
    /\ UNCHANGED sequences

Sequence(k, s) ==
    /\ sequences' = [sequences EXCEPT ![k] = SequenceAfter(@, s)]
    /\ UNCHANGED literals

\* The block is refused: nothing is in force until the next frame.
Refuse == FrameTables(FALSE)

TablesInit ==
    /\ literals = NoTable
    /\ sequences = [k \in Kinds |-> NoTable]

TablesNext ==
    \/ \E d \in BOOLEAN : FrameTables(d)
    \/ \E s \in LiteralsSections : Literals(s)
    \/ \E k \in Kinds, s \in SequenceSections : Sequence(k, s)
    \/ Refuse

TablesSpec == TablesInit /\ [][TablesNext]_formatVars
==============================================================================
