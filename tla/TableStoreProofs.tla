-------------------------- MODULE TableStoreProofs --------------------------
(***************************************************************************)
(* That the memory of the entropy tables has one owner, that shared tables *)
(* are never written, and that the decoder therefore implements            *)
(* BlockTables, for any number of kinds, tables, scratches and pools.      *)
(*                                                                         *)
(* The invariant is the conjunction of the four the runs check: the writes *)
(* of a decoder go to memory it owns (Owned), so they change neither the   *)
(* shared tables (SharedIntact) nor another kind's, and other goroutines   *)
(* write to pooled memory only.                                            *)
(***************************************************************************)
EXTENDS TableStore, TLAPS

Inv == TypeOK /\ Owned /\ SharedIntact /\ WholeTables

LEMMA Initially == Init => Inv
<1> SUFFICES ASSUME Init PROVE Inv
  OBVIOUS
<1> USE StoreAssumption DEF Init, SharedFse, Tables
<1>1. TypeOK
  BY DEF TypeOK
<1>2. Owned
  BY DEF Owned
<1>3. SharedIntact
  <2>1. huffMem[DictHuff] = DictTable
    OBVIOUS
  <2>2. ASSUME NEW k \in Kinds PROVE fseMem[DictFse[k]] = DictTable /\ fseMem[PredefFse[k]] = PredefTable
    <3>1. DictFse[k] \in SharedFse /\ PredefFse[k] \in SharedFse
      OBVIOUS
    <3>2. DictFse[k] \notin FsePool /\ PredefFse[k] \notin FsePool
      BY <3>1
    <3>3. ~\E j \in Kinds : PredefFse[k] = DictFse[j]
      OBVIOUS
    <3> QED
      BY <3>1, <3>2, <3>3
  <2> QED
    BY <2>1, <2>2 DEF SharedIntact
<1>4. WholeTables
  BY DEF WholeTables
<1> QED
  BY <1>1, <1>2, <1>3, <1>4 DEF Inv

\* The tables of a frame that starts are the dictionary's, or none.
LEMMA StartFrameKeeps == ASSUME Inv, NEW d \in BOOLEAN, StartFrame(d) PROVE Inv'
<1> USE StoreAssumption DEF StartFrame, Inv
<1>1. TypeOK'
  <2>1. FreedHuff \subseteq HuffPool
    BY DEF FreedHuff, TypeOK, Owned
  <2>2. FreedFse \subseteq FsePool
    BY DEF FreedFse, TypeOK, preDefined
  <2> QED
    BY <2>1, <2>2 DEF TypeOK, SharedFse
<1>2. Owned'
  BY <1>1 DEF Owned, TypeOK, SharedFse
<1>3. SharedIntact'
  BY DEF SharedIntact
<1>4. WholeTables'
  BY DEF WholeTables, SharedIntact, Tables
<1> QED
  BY <1>1, <1>2, <1>3, <1>4

\* The Huffman part of the state, when the FSE part and the frame stay.
LEMMA HuffWritten ==
    ASSUME Inv, NEW o \in HuffTargets, NEW t \in Tables \cup {Junk},
           huffMem' = [huffMem EXCEPT ![o] = t]
    PROVE  /\ o \in HuffPool
           /\ huffMem' \in [HuffPool \cup {DictHuff} -> Tables \cup {Junk}]
           /\ huffMem'[o] = t
           /\ huffMem'[DictHuff] = DictTable
<1>1. o \in HuffPool
  BY DEF HuffTargets, Inv, TypeOK, Owned
<1> QED
  BY <1>1, StoreAssumption DEF Inv, TypeOK, SharedIntact

LEMMA LiteralsKeeps ==
    ASSUME Inv, NEW mode \in LiteralsModes, NEW t \in Built, Literals(mode, t)
    PROVE  Inv'
<1> USE DEF Literals, Inv, Tables
<1>1. CASE mode = "Compressed"
  <2>1. PICK o \in HuffTargets :
          /\ huffTree' = o
          /\ huffMem' = [huffMem EXCEPT ![o] = t]
          /\ huffPool' = huffPool \ {o}
    BY <1>1 DEF NewHuffman
  <2>2. /\ o \in HuffPool
        /\ huffMem' \in [HuffPool \cup {DictHuff} -> Tables \cup {Junk}]
        /\ huffMem'[o] = t
        /\ huffMem'[DictHuff] = DictTable
    BY <2>1, HuffWritten
  <2>3. TypeOK'
    BY <2>1, <2>2 DEF TypeOK, fseVars
  <2>4. Owned'
    BY <2>1, <2>2, StoreAssumption DEF Owned, fseVars
  <2>5. SharedIntact'
    BY <2>2 DEF SharedIntact, fseVars
  <2>6. WholeTables'
    BY <2>1, <2>2 DEF WholeTables, fseVars
  <2> QED
    BY <2>3, <2>4, <2>5, <2>6
<1>2. CASE mode # "Compressed"
  BY <1>2 DEF PlainLiterals, TypeOK, Owned, SharedIntact, WholeTables, huffVars, fseVars
<1> QED
  BY <1>1, <1>2

LEMMA LiteralsSpoiltKeeps == ASSUME Inv, LiteralsSpoilt PROVE Inv'
<1> USE DEF LiteralsSpoilt, Inv
<1>1. PICK o \in HuffTargets : huffMem' = [huffMem EXCEPT ![o] = Junk]
  OBVIOUS
<1>2. /\ huffMem' \in [HuffPool \cup {DictHuff} -> Tables \cup {Junk}]
      /\ huffMem'[DictHuff] = DictTable
  BY <1>1, HuffWritten
<1> QED
  BY <1>2 DEF TypeOK, Owned, SharedIntact, WholeTables, fseVars

\* A new table of kind k, whole or not.
LEMMA FseWritten ==
    ASSUME Inv, NEW k \in Kinds, NEW t \in Tables \cup {Junk}, NewFse(k, t)
    PROVE  /\ fse'[k] \in FsePool
           /\ fse' \in [Kinds -> FsePool \cup SharedFse \cup {Nil}]
           /\ fseMem' \in [FsePool \cup SharedFse -> Tables \cup {Junk}]
           /\ fsePool' \subseteq fsePool
           /\ fseMem'[fse'[k]] = t
           /\ fse'[k] \notin fsePool'
           /\ \A j \in Kinds : j # k => /\ fse'[j] = fse[j]
                                        /\ fse[j] # fse'[k]
                                        /\ fse[j] # Nil => fseMem'[fse[j]] = fseMem[fse[j]]
           /\ \A s \in SharedFse : fseMem'[s] = fseMem[s]
<1> USE DEF Inv, TypeOK
<1>1. PICK o \in FseTargets(k) :
        /\ fse' = [fse EXCEPT ![k] = o]
        /\ fseMem' = [fseMem EXCEPT ![o] = t]
        /\ fsePool' = fsePool \ {o}
  BY DEF NewFse
<1>2. o \in FsePool
  BY DEF FseTargets, preDefined
<1>3. ASSUME NEW j \in Kinds, j # k PROVE fse[j] # o
  <2>1. CASE o \in fsePool
    BY <2>1 DEF Owned
  <2>2. CASE o = fse[k]
    BY <1>2, <1>3, <2>2 DEF Owned
  <2> QED
    BY <2>1, <2>2 DEF FseTargets
<1>4. fse'[k] = o /\ \A j \in Kinds : j # k => fse'[j] = fse[j]
  BY <1>1
<1>5. ASSUME NEW j \in Kinds, j # k, fse[j] # Nil PROVE fseMem'[fse[j]] = fseMem[fse[j]]
  BY <1>1, <1>3, <1>5
<1>6. \A s \in SharedFse : fseMem'[s] = fseMem[s]
  BY <1>1, <1>2, StoreAssumption
<1> QED
  BY <1>1, <1>2, <1>3, <1>4, <1>5, <1>6

LEMMA SequenceKeeps ==
    ASSUME Inv, NEW k \in Kinds, NEW mode \in {"Predefined", "RLE", "FSE", "Repeat"},
           NEW t \in Built, Sequence(k, mode, t)
    PROVE  Inv'
<1> USE DEF Sequence, Inv
<1>1. CASE mode \in {"RLE", "FSE"}
  <2>1. NewFse(k, t) /\ t \in Tables
    BY <1>1 DEF Tables
  <2>2. /\ fse'[k] \in FsePool
        /\ fse' \in [Kinds -> FsePool \cup SharedFse \cup {Nil}]
        /\ fseMem' \in [FsePool \cup SharedFse -> Tables \cup {Junk}]
        /\ fsePool' \subseteq fsePool
        /\ fseMem'[fse'[k]] = t
        /\ fse'[k] \notin fsePool'
        /\ \A j \in Kinds : j # k => /\ fse'[j] = fse[j]
                                     /\ fse[j] # fse'[k]
                                     /\ fse[j] # Nil => fseMem'[fse[j]] = fseMem[fse[j]]
        /\ \A s \in SharedFse : fseMem'[s] = fseMem[s]
    BY <2>1, FseWritten
  <2>3. TypeOK'
    BY <2>2 DEF TypeOK, huffVars
  <2>4. Owned'
    BY <2>2 DEF Owned, huffVars
  <2>5. SharedIntact'
    BY <2>2 DEF SharedIntact, SharedFse, huffVars
  <2>6. WholeTables'
    <3>1. ASSUME NEW j \in Kinds, fse'[j] # Nil PROVE fseMem'[fse'[j]] \in Tables
      BY <2>1, <2>2, <3>1 DEF WholeTables
    <3> QED
      BY <3>1 DEF WholeTables, huffVars
  <2> QED
    BY <2>3, <2>4, <2>5, <2>6
<1>2. CASE mode = "Predefined"
  <2>1. /\ fse' = [fse EXCEPT ![k] = PredefFse[k]]
        /\ UNCHANGED fseMem
        /\ fsePool' = IF fse[k] # Nil /\ ~preDefined(fse[k]) THEN fsePool \cup {fse[k]} ELSE fsePool
    BY <1>2 DEF Predefined
  <2>2. PredefFse[k] \in SharedFse /\ PredefFse[k] \notin FsePool
    BY StoreAssumption DEF SharedFse
  <2>3. fsePool' \subseteq FsePool
    BY <2>1 DEF TypeOK, preDefined
  <2>4. \A j \in Kinds : fse'[j] = IF j = k THEN PredefFse[k] ELSE fse[j]
    BY <2>1 DEF TypeOK
  <2>5. TypeOK'
    BY <2>1, <2>2, <2>3 DEF TypeOK, huffVars
  <2>6. ASSUME NEW j \in Kinds, j # k PROVE fse[j] \notin fsePool'
    <3>1. fse[k] = fse[j] => ~(fse[k] # Nil /\ ~preDefined(fse[k]))
      BY <2>6 DEF Owned, TypeOK, preDefined
    <3> QED
      BY <2>1, <3>1 DEF Owned
  <2>7. Owned'
    BY <2>2, <2>3, <2>4, <2>6 DEF Owned, huffVars
  <2>8. SharedIntact'
    BY <2>1 DEF SharedIntact, huffVars
  <2>9. WholeTables'
    BY <2>1, <2>4 DEF WholeTables, SharedIntact, Tables, huffVars
  <2> QED
    BY <2>5, <2>7, <2>8, <2>9
<1>3. CASE mode = "Repeat"
  BY <1>3 DEF Repeat, TypeOK, Owned, SharedIntact, WholeTables, huffVars, fseVars
<1> QED
  BY <1>1, <1>2, <1>3

LEMMA SequenceSpoiltKeeps ==
    ASSUME Inv, NEW k \in Kinds, SequenceSpoilt(k)
    PROVE  Inv'
<1> USE DEF SequenceSpoilt, Inv
<1>1. /\ fse'[k] \in FsePool
      /\ fse' \in [Kinds -> FsePool \cup SharedFse \cup {Nil}]
      /\ fseMem' \in [FsePool \cup SharedFse -> Tables \cup {Junk}]
      /\ fsePool' \subseteq fsePool
      /\ fse'[k] \notin fsePool'
      /\ \A j \in Kinds : j # k => fse'[j] = fse[j] /\ fse[j] # fse'[k]
      /\ \A s \in SharedFse : fseMem'[s] = fseMem[s]
  BY FseWritten
<1>2. TypeOK'
  BY <1>1 DEF TypeOK, huffVars
<1>3. Owned'
  BY <1>1 DEF Owned, huffVars
<1>4. SharedIntact'
  BY <1>1 DEF SharedIntact, SharedFse, huffVars
<1>5. WholeTables'
  BY DEF WholeTables
<1> QED
  BY <1>2, <1>3, <1>4, <1>5

\* What other goroutines write is in the pools, where this decoder has nothing.
LEMMA OthersWriteKeeps ==
    ASSUME Inv, OthersWrite
    PROVE  /\ Inv'
           /\ huffTree # Nil => huffMem'[huffTree] = huffMem[huffTree]
           /\ \A k \in Kinds : fse[k] # Nil => fseMem'[fse[k]] = fseMem[fse[k]]
<1> USE DEF OthersWrite, Inv
<1>1. CASE (\E o \in huffPool : huffMem' = [huffMem EXCEPT ![o] = Junk]) /\ UNCHANGED fseMem
  <2>1. PICK o \in huffPool : huffMem' = [huffMem EXCEPT ![o] = Junk]
    BY <1>1
  <2>2. o \in HuffPool /\ o # DictHuff /\ o # huffTree
    BY StoreAssumption DEF TypeOK, Owned
  <2>3. huffMem' \in [HuffPool \cup {DictHuff} -> Tables \cup {Junk}]
    BY <2>1, <2>2 DEF TypeOK
  <2>4. huffMem'[DictHuff] = huffMem[DictHuff] /\ (huffTree # Nil => huffMem'[huffTree] = huffMem[huffTree])
    BY <2>1, <2>2 DEF TypeOK
  <2> QED
    BY <1>1, <2>3, <2>4 DEF TypeOK, Owned, SharedIntact, WholeTables
<1>2. CASE (\E o \in fsePool : fseMem' = [fseMem EXCEPT ![o] = Junk]) /\ UNCHANGED huffMem
  <2>1. PICK o \in fsePool : fseMem' = [fseMem EXCEPT ![o] = Junk]
    BY <1>2
  <2>2. o \in FsePool /\ o \notin SharedFse /\ \A k \in Kinds : o # fse[k]
    BY StoreAssumption DEF TypeOK, Owned
  <2>3. fseMem' \in [FsePool \cup SharedFse -> Tables \cup {Junk}]
    BY <2>1, <2>2 DEF TypeOK
  <2>4. /\ \A s \in SharedFse : fseMem'[s] = fseMem[s]
        /\ \A k \in Kinds : fse[k] # Nil => fseMem'[fse[k]] = fseMem[fse[k]]
    BY <2>1, <2>2 DEF TypeOK
  <2>5. SharedIntact'
    BY <1>2, <2>4 DEF SharedIntact, SharedFse
  <2> QED
    BY <1>2, <2>3, <2>4, <2>5 DEF TypeOK, Owned, WholeTables
<1> QED
  BY <1>1, <1>2

\* The steps that leave memory, pools and references alone.
LEMMA ControlKeeps ==
    ASSUME Inv, UNCHANGED <<dict, huffVars, fseVars>>,
           loaded' \subseteq Kinds, at' \in {"closed", "frame", "tables", "execute"},
           at' # "closed" => at # "closed",
           at' = "execute" => at = "execute" \/ \A k \in Kinds : fse[k] # Nil
    PROVE  Inv'
BY DEF Inv, TypeOK, Owned, SharedIntact, WholeTables, huffVars, fseVars

LEMMA StepKeeps == Inv /\ [Next]_vars => Inv'
<1> SUFFICES ASSUME Inv, [Next]_vars PROVE Inv'
  OBVIOUS
<1>1. ASSUME NEW d \in BOOLEAN, StartFrame(d) PROVE Inv'
  BY <1>1, StartFrameKeeps
<1>2. CASE Refused
  BY <1>2, ControlKeeps DEF Refused, Inv, TypeOK
<1>3. ASSUME NEW mode \in LiteralsModes, NEW t \in Built, Literals(mode, t) PROVE Inv'
  BY <1>3, LiteralsKeeps
<1>4. CASE LiteralsSpoilt
  BY <1>4, LiteralsSpoiltKeeps
<1>5. CASE NoSequences
  BY <1>5, ControlKeeps DEF NoSequences, Inv, TypeOK
<1>6. ASSUME NEW k \in Kinds, NEW mode \in {"Predefined", "RLE", "FSE", "Repeat"}, NEW t \in Built,
             Sequence(k, mode, t)
      PROVE  Inv'
  BY <1>6, SequenceKeeps
<1>7. ASSUME NEW k \in Kinds, SequenceSpoilt(k) PROVE Inv'
  BY <1>7, SequenceSpoiltKeeps
<1>8. CASE Initialize
  BY <1>8, ControlKeeps DEF Initialize, Inv, TypeOK
<1>9. CASE Execute
  BY <1>9, ControlKeeps DEF Execute, Inv, TypeOK
<1>10. CASE OthersWrite
  BY <1>10, OthersWriteKeeps
<1>11. CASE UNCHANGED vars
  BY <1>11, ControlKeeps DEF vars, Inv, TypeOK
<1> QED
  BY <1>1, <1>2, <1>3, <1>4, <1>5, <1>6, <1>7, <1>8, <1>9, <1>10, <1>11 DEF Next

------------------------------------------------------------------------------
\* All of it holds in every behaviour.
THEOREM StoreHolds == Spec => []Inv
<1> QED
  BY Initially, StepKeeps, PTL DEF Spec

\* The types of the decoder's tables hold in every behaviour; no pool ever holds shared
\* memory.
THEOREM StoreTyped == Spec => []TypeOK
<1>1. Inv => TypeOK
  BY DEF Inv
<1> QED
  BY <1>1, StoreHolds, PTL

\* No table in use is in a pool, and no two kinds share one that can be written.
THEOREM StoreOwned == Spec => []Owned
<1>1. Inv => Owned
  BY DEF Inv
<1> QED
  BY <1>1, StoreHolds, PTL

\* Dictionaries and predefined tables are never written.
THEOREM StoreSharedIntact == Spec => []SharedIntact
<1>1. Inv => SharedIntact
  BY DEF Inv
<1> QED
  BY <1>1, StoreHolds, PTL

\* Every table in use is whole, and sequences are executed with one for each kind.
THEOREM StoreWhole == Spec => []WholeTables
<1>1. Inv => WholeTables
  BY DEF Inv
<1> QED
  BY <1>1, StoreHolds, PTL

------------------------------------------------------------------------------
(* The tables in force follow the rules of the format.                     *)

Forced == [k \in Kinds |-> SequenceTable(k)]

\* A step that refuses a block leaves no table in force.
LEMMA RefusedInForce ==
    ASSUME at' = "closed"
    PROVE  Format!Refuse
BY DEF Format!Refuse, Format!FrameTables, LiteralsTable, SequenceTable

\* A step that leaves alone what the decoder refers to leaves the tables in force alone.
LEMMA SameInForce ==
    ASSUME at # "closed", at' # "closed", huffTree' = huffTree, fse' = fse,
           huffTree # Nil => huffMem'[huffTree] = huffMem[huffTree],
           \A k \in Kinds : fse[k] # Nil => fseMem'[fse[k]] = fseMem[fse[k]]
    PROVE  UNCHANGED Format!formatVars
BY DEF Format!formatVars, LiteralsTable, SequenceTable

LEMMA StartFrameInForce ==
    ASSUME Inv, NEW d \in BOOLEAN, StartFrame(d)
    PROVE  Format!FrameTables(d)
<1>1. LiteralsTable' = IF d THEN DictTable ELSE NoTable
  BY StoreAssumption DEF StartFrame, LiteralsTable, Inv, SharedIntact
<1>2. ASSUME NEW k \in Kinds PROVE SequenceTable(k)' = IF d THEN DictTable ELSE NoTable
  <2>1. DictFse[k] # Nil
    BY StoreAssumption DEF SharedFse
  <2> QED
    BY <2>1 DEF StartFrame, SequenceTable, Inv, SharedIntact
<1> QED
  BY <1>1, <1>2 DEF Format!FrameTables

LEMMA LiteralsInForce ==
    ASSUME Inv, NEW mode \in LiteralsModes, NEW t \in Built, Literals(mode, t)
    PROVE  \E s \in Format!LiteralsSections : Format!Literals(s)
<1> USE DEF Literals, Inv
<1>1. Forced' = Forced
  BY DEF Forced, SequenceTable, fseVars
<1>2. CASE mode = "Compressed"
  <2>1. PICK o \in HuffTargets :
          /\ huffTree' = o
          /\ huffMem' = [huffMem EXCEPT ![o] = t]
    BY <1>2 DEF NewHuffman
  <2>2. o \in HuffPool /\ huffMem'[o] = t
    BY <2>1, HuffWritten DEF Tables
  <2>3. LiteralsTable' = t
    BY <2>1, <2>2, StoreAssumption DEF LiteralsTable
  <2>4. [mode |-> "Compressed", table |-> t] \in Format!LiteralsSections
    BY DEF Format!LiteralsSections, Format!Tables
  <2> QED
    BY <1>1, <2>3, <2>4 DEF Forced, Format!Literals, Format!LiteralsAfter
<1>3. CASE mode = "Treeless"
  <2>1. LiteralsTable' = LiteralsTable /\ LiteralsTable \in Tables
    BY <1>3 DEF PlainLiterals, LiteralsTable, WholeTables, huffVars
  <2>2. LiteralsTable # NoTable
    BY <2>1, StoreAssumption
  <2>3. [mode |-> "Treeless", table |-> LiteralsTable] \in Format!LiteralsSections
    BY <2>1 DEF Format!LiteralsSections, Format!Tables, Tables
  <2> QED
    BY <1>1, <2>1, <2>2, <2>3 DEF Forced, Format!Literals, Format!LiteralsAfter
<1>4. CASE mode \in {"Raw", "RLE"}
  <2>1. LiteralsTable' = LiteralsTable
    BY <1>4 DEF PlainLiterals, LiteralsTable, huffVars
  <2>2. [mode |-> mode, table |-> NoTable] \in Format!LiteralsSections
    BY <1>4 DEF Format!LiteralsSections
  <2> QED
    BY <1>1, <1>4, <2>1, <2>2 DEF Forced, Format!Literals, Format!LiteralsAfter
<1> QED
  BY <1>2, <1>3, <1>4 DEF LiteralsModes

LEMMA SequenceInForce ==
    ASSUME Inv, NEW k \in Kinds, NEW mode \in {"Predefined", "RLE", "FSE", "Repeat"},
           NEW t \in Built, Sequence(k, mode, t)
    PROVE  \E s \in Format!SequenceSections : Format!Sequence(k, s)
<1> DEFINE s == [mode |-> mode, table |-> t]
           after == Format!SequenceAfter(SequenceTable(k), s)
<1>1. s \in Format!SequenceSections
  BY DEF Format!SequenceSections, Format!SequenceModes, Format!Tables
<1>2. LiteralsTable' = LiteralsTable
  BY DEF Sequence, LiteralsTable, huffVars
<1>3. ASSUME NEW j \in Kinds PROVE SequenceTable(j)' = IF j = k THEN after ELSE SequenceTable(j)
  <2>1. CASE mode \in {"RLE", "FSE"}
    <3>1. NewFse(k, t) /\ t \in Tables
      BY <2>1 DEF Sequence, Tables
    <3>2. /\ fse'[k] \in FsePool
          /\ fseMem'[fse'[k]] = t
          /\ \A i \in Kinds : i # k => /\ fse'[i] = fse[i]
                                       /\ fse[i] # Nil => fseMem'[fse[i]] = fseMem[fse[i]]
      BY <3>1, FseWritten
    <3>3. after = t
      BY <2>1 DEF Format!SequenceAfter
    <3> QED
      BY <3>2, <3>3, StoreAssumption DEF Sequence, SequenceTable
  <2>2. CASE mode = "Predefined"
    <3>1. after = PredefTable
      BY <2>2 DEF Format!SequenceAfter
    <3>2. fse'[j] = (IF j = k THEN PredefFse[k] ELSE fse[j]) /\ fseMem' = fseMem
      BY <2>2 DEF Sequence, Predefined, Inv, TypeOK
    <3>3. PredefFse[k] # Nil /\ fseMem[PredefFse[k]] = PredefTable
      BY StoreAssumption DEF SharedFse, Inv, SharedIntact
    <3> QED
      BY <3>1, <3>2, <3>3 DEF Sequence, SequenceTable
  <2>3. CASE mode = "Repeat"
    BY <2>3 DEF Sequence, Repeat, SequenceTable, fseVars, Format!SequenceAfter
  <2> QED
    BY <2>1, <2>2, <2>3
<1>4. Forced' = [Forced EXCEPT ![k] = Format!SequenceAfter(@, s)]
  BY <1>3 DEF Forced
<1> QED
  BY <1>1, <1>2, <1>4 DEF Forced, Format!Sequence

\* Every step of the decoder is one of the format's, or none.
LEMMA StepInForce == Inv /\ [Next]_vars => [Format!TablesNext]_(Format!formatVars)
<1> SUFFICES ASSUME Inv, [Next]_vars
             PROVE  Format!TablesNext \/ UNCHANGED Format!formatVars
  OBVIOUS
<1>1. ASSUME NEW d \in BOOLEAN, StartFrame(d) PROVE Format!TablesNext
  BY <1>1, StartFrameInForce DEF Format!TablesNext
<1>2. CASE Refused \/ LiteralsSpoilt \/ \E k \in Kinds : SequenceSpoilt(k)
  BY <1>2, RefusedInForce DEF Refused, LiteralsSpoilt, SequenceSpoilt, Format!TablesNext
<1>3. ASSUME NEW mode \in LiteralsModes, NEW t \in Built, Literals(mode, t)
      PROVE  Format!TablesNext
  BY <1>3, LiteralsInForce DEF Format!TablesNext
<1>4. CASE NoSequences \/ Execute
  BY <1>4, SameInForce DEF NoSequences, Execute, huffVars, fseVars
<1>5. ASSUME NEW k \in Kinds, NEW mode \in {"Predefined", "RLE", "FSE", "Repeat"}, NEW t \in Built,
             Sequence(k, mode, t)
      PROVE  Format!TablesNext
  BY <1>5, SequenceInForce DEF Format!TablesNext
<1>6. CASE Initialize
  <2>1. CASE at' = "closed"
    BY <2>1, RefusedInForce DEF Format!TablesNext
  <2>2. CASE at' # "closed"
    BY <1>6, <2>2, SameInForce DEF Initialize, huffVars, fseVars
  <2> QED
    BY <2>1, <2>2
<1>7. CASE OthersWrite
  <2>1. CASE at = "closed"
    <3>1. at' = "closed"
      BY <1>7, <2>1 DEF OthersWrite
    <3> QED
      BY <3>1, RefusedInForce DEF Format!TablesNext
  <2>2. CASE at # "closed"
    BY <1>7, <2>2, OthersWriteKeeps, SameInForce DEF OthersWrite
  <2> QED
    BY <2>1, <2>2
<1>8. CASE UNCHANGED vars
  BY <1>8 DEF vars, huffVars, fseVars, Format!formatVars, LiteralsTable, SequenceTable
<1> QED
  BY <1>1, <1>2, <1>3, <1>4, <1>5, <1>6, <1>7, <1>8 DEF Next

\* Whatever other goroutines do, and whatever is in the pools, the decoder implements
\* the rules of the format: the tables in force are those the sections define.
THEOREM StoreImplementsTables == Spec => ImplementsTables
<1>1. Init => Format!TablesInit
  BY DEF Init, Format!TablesInit, LiteralsTable, SequenceTable
<1> QED
  BY <1>1, StepInForce, StoreHolds, PTL DEF Spec, ImplementsTables, Format!TablesSpec
==============================================================================
