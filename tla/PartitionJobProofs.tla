----------------------- MODULE PartitionJobProofs ---------------------------
(***************************************************************************)
(* Proofs about PartitionFiles, for any number of table pairs that share   *)
(* folders in any way, any numbers of partitions, any parts_per_file and   *)
(* any number of runs: list_to_sublists loses and repeats nothing, and a   *)
(* run that reports success has put every partition in one file, the one   *)
(* with its number; one that was ended early, in the middle of a file too, *)
(* has left the first partitions of each pair.                             *)
(*                                                                         *)
(* Then about PartitionJob, for any number of tasks, attempts and failures *)
(* and any generations before the job: the job leaves the directory as     *)
(* PartitionFiles says, it covers the table if every task succeeds and     *)
(* there are no more files than tasks, and a task whose file has new       *)
(* partitions runs none of an older generation.                            *)
(***************************************************************************)
EXTENDS PartitionJob, ListLemmas

-----------------------------------------------------------------------------
(* list_to_sublists.                                                       *)

\* The number, from one, of the file that holds the n-th partition of a pair.
FileOf(n) == (n - 1) \div parts_per_file + 1

\* The element of a list that place j of sublist i is.
Place(i, j) == (i - 1) * parts_per_file + j

\* One sublist: not empty, and a range of the list of the elements that belong there.
LEMMA Sublist ==
  ASSUME NEW S, NEW s \in Seq(S), NEW i \in 1..((Len(s) + parts_per_file - 1) \div parts_per_file)
  PROVE  LET sub == list_to_sublists(s, parts_per_file)[i]
         IN /\ sub \in Seq(S)
            /\ Len(sub) >= 1
            /\ \A j \in 1..Len(sub) :
                 /\ j <= parts_per_file /\ Place(i, j) \in 1..Len(s)
                 /\ sub[j] = s[Place(i, j)]
            /\ \A j \in 1..parts_per_file : Place(i, j) \in 1..Len(s) => j \in 1..Len(sub)
<1> DEFINE m == parts_per_file
           from == (i - 1) * m + 1
           to == SmallerOf(i * m, Len(s))
           sub == list_to_sublists(s, m)[i]
<1>1. m \in Nat \ {0} /\ Len(s) \in Nat
  BY PartsPerFileAssumption
<1>2. i \in Nat \ {0} /\ i * m = (i - 1) * m + m /\ (i - 1) * m \in Nat
  BY <1>1, NumberOfSublists
<1>3. from <= Len(s)
  BY <1>1, NumberOfSublists
<1>4. from \in Nat \ {0} /\ to \in Nat /\ from <= to /\ to <= Len(s) /\ to <= (i - 1) * m + m
  BY <1>1, <1>2, <1>3 DEF SmallerOf
<1>5. sub = SubSeq(s, from, to)
  BY DEF list_to_sublists
<1> HIDE DEF sub
<1>6. /\ sub \in Seq(S) /\ Len(sub) = to - from + 1
      /\ \A j \in 1..Len(sub) : sub[j] = s[from + j - 1]
  <2> HIDE DEF from, to
  <2>1. /\ sub \in Seq(S) /\ Len(sub) = to - from + 1
    BY <1>1, <1>4, <1>5
  <2>2. \A j \in 1..Len(sub) : sub[j] = s[from + j - 1]
    BY <1>1, <1>4, <1>5, <2>1
  <2> QED BY <2>1, <2>2
<1>7. ASSUME NEW j \in 1..Len(sub)
      PROVE  j <= m /\ Place(i, j) \in 1..Len(s) /\ sub[j] = s[Place(i, j)]
  <2>1. j \in Nat \ {0} /\ j <= to - from + 1
    BY <1>4, <1>6
  <2>2. from + j - 1 = Place(i, j)
    BY <1>2, <2>1 DEF Place
  <2>3. j <= m
    BY <1>1, <1>2, <1>4, <2>1
  <2>4. from + j - 1 \in 1..Len(s)
    BY <1>1, <1>4, <2>1
  <2> QED BY <1>6, <2>2, <2>3, <2>4
<1>8. ASSUME NEW j \in 1..m, Place(i, j) \in 1..Len(s) PROVE j \in 1..Len(sub)
  BY <1>1, <1>2, <1>4, <1>6, <1>8 DEF Place, SmallerOf
<1>9. Len(sub) >= 1
  BY <1>4, <1>6
<1> QED BY <1>6, <1>7, <1>8, <1>9 DEF sub

\* The sublists of a list together: every element of the list is in the sublist with its
\* number, once, and nothing else is in any (list_to_sublists of util.py).
LEMMA NothingLostOrRepeated ==
  ASSUME NEW S, NEW s \in Seq(S)
  PROVE  LET subs == list_to_sublists(s, parts_per_file)
         IN /\ subs \in Seq(Seq(S))
            /\ \A i \in 1..Len(subs) :
                 /\ Len(subs[i]) >= 1
                 /\ \A j \in 1..Len(subs[i]) :
                      /\ Place(i, j) \in 1..Len(s) /\ FileOf(Place(i, j)) = i
                      /\ subs[i][j] = s[Place(i, j)]
                      /\ \A k \in 1..Len(subs[i]) : Place(i, j) = Place(i, k) => j = k
            /\ \A n \in 1..Len(s) :
                 /\ FileOf(n) \in 1..Len(subs)
                 /\ \E j \in 1..Len(subs[FileOf(n)]) : Place(FileOf(n), j) = n
<1> DEFINE m == parts_per_file
           K == (Len(s) + m - 1) \div m
           subs == list_to_sublists(s, m)
<1>1. m \in Nat \ {0} /\ Len(s) \in Nat /\ K \in Nat
  BY PartsPerFileAssumption, NumberOfSublists
<1>2. \A i \in 1..K : subs[i] \in Seq(S)
  BY Sublist
<1>3. subs = [i \in 1..K |-> subs[i]]
  BY DEF list_to_sublists
<1> HIDE DEF K
<1>4. subs \in Seq(Seq(S)) /\ Len(subs) = K
  <2> HIDE DEF subs
  <2>1. subs \in [1..K -> Seq(S)]
    BY <1>2, <1>3
  <2> QED BY <1>1, <2>1
<1>5. ASSUME NEW i \in 1..K, NEW j \in 1..Len(subs[i])
      PROVE  /\ Place(i, j) \in 1..Len(s) /\ FileOf(Place(i, j)) = i
             /\ subs[i][j] = s[Place(i, j)]
             /\ \A k \in 1..Len(subs[i]) : Place(i, j) = Place(i, k) => j = k
  <2>1. /\ Place(i, j) \in 1..Len(s) /\ subs[i][j] = s[Place(i, j)] /\ j <= m
        /\ Len(subs[i]) \in Nat
    <3>1. i \in 1..((Len(s) + m - 1) \div m)
      BY DEF K
    <3>2. /\ Place(i, j) \in 1..Len(s) /\ subs[i][j] = s[Place(i, j)] /\ j <= m
      BY <3>1, Sublist
    <3> QED BY <1>2, <3>2
  <2>2. j - 1 \in 0..(m - 1) /\ i - 1 \in Nat
    BY <1>1, <2>1
  <2>3. ((i - 1) * m + (j - 1)) \div m = i - 1
    BY <1>1, <2>2, Quotient
  <2>4. Place(i, j) - 1 = (i - 1) * m + (j - 1)
    BY <1>1, <2>1, <2>2 DEF Place
  <2>5. FileOf(Place(i, j)) = i
    BY <2>2, <2>3, <2>4 DEF FileOf
  <2>6. \A k \in 1..Len(subs[i]) : Place(i, j) = Place(i, k) => j = k
    BY <1>1, <2>1, <2>2 DEF Place
  <2> QED BY <2>1, <2>5, <2>6
<1>6. ASSUME NEW n \in 1..Len(s)
      PROVE  /\ FileOf(n) \in 1..K
             /\ \E j \in 1..Len(subs[FileOf(n)]) : Place(FileOf(n), j) = n
  <2> DEFINE q == (n - 1) \div m
             r == n - 1 - q * m
  <2>1. FileOf(n) \in 1..K /\ FileOf(n) = q + 1
    BY <1>1, NumberOfSublists DEF FileOf, K
  <2>2. q \in Nat /\ r \in 0..(m - 1)
    <3>1. n - 1 \in Nat
      BY <1>1
    <3>2. \A x \in Nat : x \div m \in Nat /\ x - (x \div m) * m \in 0..(m - 1)
      BY <1>1, Division
    <3> QED BY <3>1, <3>2
  <2> HIDE DEF q
  <2>3. r + 1 \in 1..m /\ Place(q + 1, r + 1) = n
    BY <1>1, <2>2 DEF Place
  <2>4. r + 1 \in 1..Len(subs[q + 1])
    <3> HIDE DEF r
    <3>1. q + 1 \in 1..((Len(s) + m - 1) \div m)
      BY <2>1 DEF K
    <3>2. \A j \in 1..m : Place(q + 1, j) \in 1..Len(s) => j \in 1..Len(subs[q + 1])
      BY <3>1, Sublist
    <3> QED BY <2>3, <3>2
  <2> QED BY <2>1, <2>3, <2>4
<1>7. \A i \in 1..K : Len(subs[i]) >= 1
  BY Sublist DEF K
<1> QED BY <1>4, <1>5, <1>6, <1>7

-----------------------------------------------------------------------------
(* The inductive invariant.                                                *)

Stages == {"idle", "adding", "storing", "writing", "done", "raised"}

\* What a run finds when its tables have the given numbers of partitions.
Found(r, counts) ==
  [pair \in Pairs |-> [n \in 1..counts[pair] |-> Partition(r, pair, n)]]

\* The filters are those of the present run.
OfThisRun == \E counts \in [Pairs -> PartCounts] : partition_filters = Found(run, counts)

\* The present run has its filters, and may have been ended early since; it is past
\* collecting the files.
Active ==
  \/ stage \in {"adding", "storing", "writing", "done"}
  \/ stage \in {"idle", "raised"} /\ OfThisRun
Collected == stage \in {"storing", "writing", "done"}

PartitionRecord == [run : Nat, pair : Pairs, part : Nat \ {0}]
Entry == [folder : ToSet(Folders), yaml_files : Seq(Seq(PartitionRecord))]

Typed ==
  /\ run \in 0..MaxRuns
  /\ stage \in Stages
  /\ ind \in 1..(Len(Folders) + 1)
  /\ yaml_configs_list \in Seq(Entry)
  /\ at \in [table : 1..(Len(yaml_configs_list) + 1), yaml_file : Nat \ {0}]

FiltersFound ==
  /\ Active => run >= 1 /\ OfThisRun
  /\ \/ partition_filters = <<>>
     \/ \E r \in 1..run : \E counts \in [Pairs -> PartCounts] :
          partition_filters = Found(r, counts)

Tables == 1..Len(yaml_configs_list)
FilesIn(k) == 1..Len(yaml_configs_list[k].yaml_files)

\* A file holds, once each and those of one pair in order, partitions of run r that belong
\* in it, of the pairs before `upto`.
Belongs(p, r, upto, fold, i) ==
  p.run = r /\ p.pair < upto /\ Folders[p.pair] = fold /\ FileOf(p.part) = i

InOrder(file) ==
  \A j, l \in 1..Len(file) :
    file[j].pair = file[l].pair /\ j < l => file[j].part < file[l].part

FileHolds(file, r, upto, fold, i) ==
  /\ Len(file) >= 1
  /\ InOrder(file)
  /\ \A j \in 1..Len(file) : Belongs(file[j], r, upto, fold, i)
  /\ \A j, l \in 1..Len(file) : file[j] = file[l] => j = l

\* Each of the partitions of a pair is in the file with its number.
FilesHold(list, r, pair, count) ==
  \A n \in 1..count :
    /\ FileOf(n) \in 1..Len(list)
    /\ \E j \in 1..Len(list[FileOf(n)]) : list[FileOf(n)][j] = Partition(r, pair, n)

PairCollected(pair) ==
  \E k \in Tables :
    /\ yaml_configs_list[k].folder = Folders[pair]
    /\ FilesHold(yaml_configs_list[k].yaml_files, run, pair, Len(partition_filters[pair]))

OneTableForAFolder ==
  \A k, l \in Tables : yaml_configs_list[k].folder = yaml_configs_list[l].folder => k = l

Lists ==
  /\ \A k \in Tables : Len(yaml_configs_list[k].yaml_files) >= 1
  /\ Active => /\ \A k \in Tables : \A i \in FilesIn(k) :
                    FileHolds(yaml_configs_list[k].yaml_files[i], run, ind,
                              yaml_configs_list[k].folder, i)
               /\ \A pair \in 1..(ind - 1) : PairCollected(pair)
               /\ OneTableForAFolder

Cursor ==
  /\ ~AllStored => at.yaml_file \in FilesIn(at.table)
  /\ stage = "adding" => at = FirstFile
  /\ stage = "writing" => ~AllStored
  /\ stage = "done" => AllStored
  /\ Collected => ind = Len(Folders) + 1

\* The loops of _store_partitions are past a file.
Passed(k, i) == k < at.table \/ (k = at.table /\ i < at.yaml_file)
NameOf(k, i) == FileName(yaml_configs_list[k].folder, i)

DiskTyped ==
  \A name \in DOMAIN disk :
    /\ name \in [folder : ToSet(Folders), index : Nat]
    /\ disk[name] \in Seq(PartitionRecord)
    /\ \A j \in 1..Len(disk[name]) : disk[name][j].run <= run

PassedAreWritten ==
  \A k \in Tables : \A i \in FilesIn(k) : Passed(k, i) =>
    NameOf(k, i) \in DOMAIN disk /\ disk[NameOf(k, i)] = yaml_configs_list[k].yaml_files[i]

IsPassed(name) == \E k \in Tables : \E i \in FilesIn(k) : Passed(k, i) /\ name = NameOf(k, i)
IsOld(name) == \A j \in 1..Len(disk[name]) : disk[name][j].run < run

\* The file the loops are at has the first validations of what belongs in it.
IsCut(name) ==
  /\ ~AllStored
  /\ name = target_file
  /\ \E n \in 0..(Len(yaml_config) - 1) : disk[name] = SubSeq(yaml_config, 1, n)

\* What is not written by this run is what earlier runs left, or empty; one file may be
\* written in part.
Disk ==
  /\ DiskTyped
  /\ stage = "adding" => \A name \in DOMAIN disk : IsOld(name)
  /\ Active =>
       /\ PassedAreWritten
       /\ \A name \in DOMAIN disk : IsPassed(name) \/ IsOld(name) \/ IsCut(name)

IInv == Typed /\ FiltersFound /\ Lists /\ Cursor /\ Disk

-----------------------------------------------------------------------------
(* The chunks of one table pair, and steps that end a run early.           *)

\* The numbers of the state.
LEMMA NumbersTyped == Typed => run \in Nat /\ ind \in Nat /\ Len(yaml_configs_list) \in Nat
<1>1. Len(Folders) \in Nat
  BY FoldersAssumption
<1> QED BY <1>1, MaxRunsAssumption DEF Typed

\* What partition_filters holds for one pair during a run.
LEMMA FiltersOfPair ==
  ASSUME Typed, FiltersFound, Active, NEW pair \in Pairs
  PROVE  /\ partition_filters[pair] \in Seq(PartitionRecord)
         /\ Len(partition_filters[pair]) \in Nat \ {0}
         /\ \A n \in 1..Len(partition_filters[pair]) :
              partition_filters[pair][n] = Partition(run, pair, n)
<1>1. PICK counts \in [Pairs -> PartCounts] : partition_filters = Found(run, counts)
  BY DEF FiltersFound, OfThisRun
<1>2. counts[pair] \in Nat \ {0}
  BY <1>1, PartCountsAssumption
<1>3. partition_filters[pair] = [n \in 1..counts[pair] |-> Partition(run, pair, n)]
  BY <1>1 DEF Found
<1>4. \A n \in 1..counts[pair] : Partition(run, pair, n) \in PartitionRecord
  BY <1>2, NumbersTyped DEF Partition, PartitionRecord
<1> HIDE DEF Partition
<1>5. partition_filters[pair] \in [1..counts[pair] -> PartitionRecord]
  BY <1>3, <1>4
<1>6. /\ Len(partition_filters[pair]) = counts[pair]
      /\ partition_filters[pair] \in Seq(PartitionRecord)
  BY <1>2, <1>5
<1> QED BY <1>2, <1>3, <1>6

\* The sublists of one pair: each partition of the pair is in the one with its number.
LEMMA SublistsOfPair ==
  ASSUME Typed, FiltersFound, Active, NEW pair \in Pairs
  PROVE  /\ Sublists(pair) \in Seq(Seq(PartitionRecord))
         /\ Len(Sublists(pair)) >= 1
         /\ \A i \in 1..Len(Sublists(pair)) :
              /\ FileHolds(Sublists(pair)[i], run, pair + 1, Folders[pair], i)
              /\ \A j \in 1..Len(Sublists(pair)[i]) : Sublists(pair)[i][j].pair = pair
         /\ FilesHold(Sublists(pair), run, pair, Len(partition_filters[pair]))
<1> DEFINE s == partition_filters[pair]
           subs == list_to_sublists(s, parts_per_file)
<1>1. s \in Seq(PartitionRecord) /\ Len(s) \in Nat \ {0}
  BY FiltersOfPair
<1>2. \A n \in 1..Len(s) : s[n] = Partition(run, pair, n)
  BY FiltersOfPair
<1>3. /\ subs \in Seq(Seq(PartitionRecord))
      /\ \A i \in 1..Len(subs) :
           /\ Len(subs[i]) >= 1
           /\ \A j \in 1..Len(subs[i]) :
                /\ Place(i, j) \in 1..Len(s) /\ FileOf(Place(i, j)) = i
                /\ subs[i][j] = s[Place(i, j)]
                /\ \A k \in 1..Len(subs[i]) : Place(i, j) = Place(i, k) => j = k
      /\ \A n \in 1..Len(s) :
           /\ FileOf(n) \in 1..Len(subs)
           /\ \E j \in 1..Len(subs[FileOf(n)]) : Place(FileOf(n), j) = n
  BY <1>1, NothingLostOrRepeated
<1> HIDE DEF s, subs
<1>4. \A i \in 1..Len(subs) : \A j \in 1..Len(subs[i]) :
        subs[i][j] = Partition(run, pair, Place(i, j))
  BY <1>2, <1>3
<1>5. Len(subs) >= 1
  <2>1. 1 \in 1..Len(s)
    BY <1>1
  <2>2. FileOf(1) \in 1..Len(subs) /\ Len(subs) \in Nat
    BY <1>3, <2>1
  <2> QED BY <2>2
<1>6. ASSUME NEW n \in 1..Len(s)
      PROVE  /\ FileOf(n) \in 1..Len(subs)
             /\ \E j \in 1..Len(subs[FileOf(n)]) : subs[FileOf(n)][j] = Partition(run, pair, n)
  <2>1. FileOf(n) \in 1..Len(subs)
    BY <1>3
  <2>2. PICK j \in 1..Len(subs[FileOf(n)]) : Place(FileOf(n), j) = n
    BY <1>3
  <2>3. subs[FileOf(n)][j] = Partition(run, pair, n)
    BY <1>4, <2>1, <2>2
  <2> QED BY <2>1, <2>2, <2>3
<1>7. ASSUME NEW i \in 1..Len(subs)
      PROVE  /\ FileHolds(subs[i], run, pair + 1, Folders[pair], i)
             /\ \A j \in 1..Len(subs[i]) : subs[i][j].pair = pair
  <2>1. ASSUME NEW j \in 1..Len(subs[i])
        PROVE  /\ subs[i][j].run = run /\ subs[i][j].pair = pair
               /\ subs[i][j].part = Place(i, j) /\ FileOf(Place(i, j)) = i
               /\ \A k \in 1..Len(subs[i]) : Place(i, j) = Place(i, k) => j = k
    <3>1. subs[i][j] = Partition(run, pair, Place(i, j))
      BY <1>4
    <3>2. /\ subs[i][j].run = run /\ subs[i][j].pair = pair /\ subs[i][j].part = Place(i, j)
      BY <3>1 DEF Partition
    <3>3. /\ FileOf(Place(i, j)) = i
          /\ \A k \in 1..Len(subs[i]) : Place(i, j) = Place(i, k) => j = k
      BY <1>3
    <3> QED BY <3>2, <3>3
  <2>2. Len(subs[i]) >= 1
    BY <1>3
  <2>3. \A j, l \in 1..Len(subs[i]) : subs[i][j] = subs[i][l] => j = l
    BY <2>1
  <2>4. \A j \in 1..Len(subs[i]) : Belongs(subs[i][j], run, pair + 1, Folders[pair], i)
    BY <2>1 DEF Belongs, Pairs
  <2>5. InOrder(subs[i])
    <3>1. (i - 1) * parts_per_file \in Int
      <4>1. i - 1 \in Int
        BY <1>3
      <4> QED BY <4>1, PartsPerFileAssumption
    <3>2. ASSUME NEW j \in 1..Len(subs[i]), NEW l \in 1..Len(subs[i]), j < l
          PROVE  Place(i, j) < Place(i, l)
      BY <1>3, <3>1, <3>2 DEF Place
    <3> QED BY <2>1, <3>2 DEF InOrder
  <2> QED BY <2>1, <2>2, <2>3, <2>4, <2>5 DEF FileHolds
<1>8. FilesHold(subs, run, pair, Len(s))
  BY <1>6 DEF FilesHold
<1> QED BY <1>3, <1>5, <1>7, <1>8 DEF subs, s, Sublists

\* The types of what is in a file.
LEMMA FileTyped ==
  ASSUME Typed, NEW k \in Tables, NEW i \in FilesIn(k)
  PROVE  /\ yaml_configs_list[k] \in Entry
         /\ yaml_configs_list[k].yaml_files[i] \in Seq(PartitionRecord)
<1>1. yaml_configs_list[k] \in Entry
  BY DEF Typed, Tables
<1>2. yaml_configs_list[k].yaml_files \in Seq(Seq(PartitionRecord))
  BY <1>1 DEF Entry
<1> QED BY <1>1, <1>2 DEF FilesIn

\* A file of the pairs before one pair is one of the pairs before the next.
LEMMA StillHolds ==
  ASSUME NEW file \in Seq(PartitionRecord), NEW r, NEW upto \in Nat, NEW fold, NEW i,
         FileHolds(file, r, upto, fold, i)
  PROVE  FileHolds(file, r, upto + 1, fold, i)
<1>1. ASSUME NEW j \in 1..Len(file) PROVE Belongs(file[j], r, upto + 1, fold, i)
  <2>1. file[j] \in PartitionRecord
    OBVIOUS
  <2>2. file[j].pair \in Nat
    BY <2>1 DEF PartitionRecord, Pairs
  <2> QED BY <2>2 DEF FileHolds, Belongs
<1> QED BY <1>1 DEF FileHolds

\* What one run finds is not what another finds, and is not nothing.
LEMMA FoundDiffers ==
  ASSUME NEW r, NEW counts \in [Pairs -> PartCounts]
  PROVE  /\ Found(r, counts) # <<>>
         /\ \A q : \A others \in [Pairs -> PartCounts] :
              Found(r, counts) = Found(q, others) => r = q
<1>1. Len(Folders) \in Nat \ {0} /\ 1 \in Pairs
  BY FoldersAssumption DEF Pairs
<1>2. ASSUME NEW q, NEW others \in [Pairs -> PartCounts] PROVE Found(q, others)[1][1].run = q
  <2>1. others[1] \in Nat \ {0}
    BY <1>1, PartCountsAssumption
  <2>2. 1 \in 1..others[1]
    BY <2>1
  <2>3. Found(q, others)[1] = [n \in 1..others[1] |-> Partition(q, 1, n)]
    BY <1>1 DEF Found
  <2>4. Found(q, others)[1][1] = Partition(q, 1, 1)
    BY <2>2, <2>3
  <2> QED BY <2>4 DEF Partition
<1>3. Found(r, counts) # <<>>
  <2>1. DOMAIN Found(r, counts) = Pairs /\ DOMAIN <<>> = {}
    BY DEF Found
  <2> QED BY <1>1, <2>1
<1> QED BY <1>2, <1>3

\* A run that does not get its filters: those of an earlier run are not its own.
LEMMA GetPartitionKeyFiltersRaisesIInv ==
  ASSUME IInv, GetPartitionKeyFiltersRaises PROVE IInv'
<1>1. /\ run < MaxRuns /\ run' = run + 1 /\ stage' = "raised" /\ run \in Nat
      /\ UNCHANGED <<partition_filters, yaml_configs_list, ind, at, disk>>
  BY NumbersTyped DEF GetPartitionKeyFiltersRaises, IInv
<1>2. Typed'
  BY <1>1, MaxRunsAssumption DEF IInv, Typed, Stages
<1>3. ~OfThisRun'
  <2> SUFFICES ASSUME NEW counts \in [Pairs -> PartCounts],
                      partition_filters = Found(run', counts)
               PROVE  FALSE
    BY <1>1 DEF OfThisRun, Found
  <2>1. partition_filters # <<>>
    BY FoundDiffers
  <2>2. PICK r \in 1..run : \E others \in [Pairs -> PartCounts] :
               partition_filters = Found(r, others)
    BY <2>1 DEF IInv, FiltersFound
  <2>3. r = run'
    BY <2>2, FoundDiffers
  <2> QED BY <1>1, <2>2, <2>3
<1>4. ~Active' /\ ~Collected'
  BY <1>1, <1>3 DEF Active, Collected
<1>5. FiltersFound'
  <2>1. 1..run \subseteq 1..run'
    BY <1>1
  <2> QED BY <1>1, <1>4, <2>1 DEF IInv, FiltersFound, Found
<1>6. Lists' /\ Cursor'
  BY <1>1, <1>4 DEF IInv, Lists, Cursor, Tables, FilesIn, AllStored
<1>7. Disk'
  <2>1. ASSUME NEW name \in DOMAIN disk, NEW j \in 1..Len(disk[name])
        PROVE  disk[name][j].run <= run'
    <3>1. disk[name][j].run <= run /\ disk[name][j] \in PartitionRecord
      BY DEF IInv, Disk, DiskTyped
    <3>2. disk[name][j].run \in Nat
      BY <3>1 DEF PartitionRecord
    <3> QED BY <1>1, <3>1, <3>2
  <2> QED BY <1>1, <1>4, <2>1 DEF IInv, Disk, DiskTyped
<1> QED BY <1>2, <1>5, <1>6, <1>7 DEF IInv

\* A step to another stage that writes nothing and leaves the loops where they are.
LEMMA StageIInv ==
  ASSUME IInv, Active, Active', stage' \in Stages, stage' # "adding", Cursor',
         UNCHANGED <<run, partition_filters, yaml_configs_list, ind, at, disk>>
  PROVE  IInv'
<1>1. Typed' /\ FiltersFound'
  BY DEF IInv, Typed, FiltersFound, OfThisRun, Found
<1>2. Lists'
  BY DEF IInv, Lists, Tables, FilesIn, PairCollected, OneTableForAFolder
<1>3. DiskTyped'
  BY DEF IInv, Disk, DiskTyped
<1>4. \A k, i : Passed(k, i)' = Passed(k, i) /\ NameOf(k, i)' = NameOf(k, i)
  BY DEF Passed, NameOf
<1>5. PassedAreWritten'
  BY <1>4 DEF IInv, Disk, PassedAreWritten, Tables, FilesIn
<1>6. \A name : /\ IsPassed(name)' = IsPassed(name) /\ IsOld(name)' = IsOld(name)
               /\ IsCut(name)' = IsCut(name)
  BY <1>4 DEF IsPassed, IsOld, Tables, FilesIn, IsCut, AllStored, target_file, yaml_config, table
<1>7. Disk'
  BY <1>3, <1>5, <1>6 DEF IInv, Disk
<1> QED BY <1>1, <1>2, <1>7 DEF IInv

\* A run that is ended early leaves its files as they are.
LEMMA RaisesIInv ==
  ASSUME IInv, stage \in {"adding", "storing", "writing"}, stage' = "raised",
         UNCHANGED <<run, partition_filters, yaml_configs_list, ind, at, disk>>
  PROVE  IInv'
<1>1. Active /\ OfThisRun
  BY DEF IInv, FiltersFound, Active
<1>2. Active' /\ stage' \in Stages
  BY <1>1 DEF Active, Stages, OfThisRun, Found
<1>3. Cursor'
  BY DEF IInv, Cursor, AllStored, FilesIn, Collected
<1> QED BY <1>1, <1>2, <1>3, StageIInv

-----------------------------------------------------------------------------
(* The steps that collect the files.                                       *)

\* A new run starts with an empty list of files, and every file on disk is an old one.
LEMMA GetPartitionKeyFiltersIInv ==
  ASSUME IInv, GetPartitionKeyFilters PROVE IInv'
<1>1. /\ run' = run + 1 /\ run < MaxRuns /\ run \in Nat
      /\ stage' = "adding" /\ yaml_configs_list' = <<>> /\ ind' = 1 /\ at' = FirstFile
      /\ UNCHANGED disk
  BY NumbersTyped DEF GetPartitionKeyFilters, IInv
<1>2. PICK counts \in [Pairs -> PartCounts] : partition_filters' = Found(run', counts)
  BY DEF GetPartitionKeyFilters, Found
<1>3. Typed'
  <2>1. Len(Folders) \in Nat
    BY FoldersAssumption
  <2>2. run' \in 0..MaxRuns
    BY <1>1, MaxRunsAssumption
  <2>3. <<>> \in Seq(Entry) /\ Len(<<>>) = 0
    OBVIOUS
  <2> QED BY <1>1, <2>1, <2>2, <2>3 DEF Typed, Stages, FirstFile
<1>4. FiltersFound'
  BY <1>1, <1>2 DEF FiltersFound, OfThisRun, Found
<1>5. Lists'
  BY <1>1 DEF Lists, Tables, OneTableForAFolder
<1>6. Cursor'
  BY <1>1 DEF Cursor, Collected, AllStored, FirstFile
<1>7. Disk'
  <2>1. ASSUME NEW name \in DOMAIN disk, NEW j \in 1..Len(disk[name])
        PROVE  disk[name][j].run <= run' /\ disk[name][j].run < run'
    <3>1. disk[name][j].run <= run /\ disk[name][j] \in PartitionRecord
      BY DEF IInv, Disk, DiskTyped
    <3>2. disk[name][j].run \in Nat
      BY <3>1 DEF PartitionRecord
    <3> QED BY <1>1, <3>1, <3>2
  <2>2. DiskTyped'
    BY <1>1, <2>1 DEF IInv, Disk, DiskTyped
  <2>3. PassedAreWritten'
    BY <1>1 DEF PassedAreWritten, Tables
  <2>4. \A name \in DOMAIN disk' : IsOld(name)'
    BY <1>1, <2>1 DEF IsOld
  <2> QED BY <2>2, <2>3, <2>4 DEF Disk
<1> QED BY <1>3, <1>4, <1>5, <1>6, <1>7 DEF IInv

\* Before the first file no file is passed.
LEMMA NonePassed ==
  ASSUME at = FirstFile, NEW k \in Nat \ {0}, NEW i \in Nat \ {0} PROVE ~Passed(k, i)
BY DEF Passed, FirstFile

\* Collecting the files of a pair writes nothing.
LEMMA AddingIInv ==
  ASSUME IInv, stage = "adding", ind \in Pairs, ind' = ind + 1,
         yaml_configs_list' \in Seq(Entry), Lists',
         UNCHANGED <<run, stage, partition_filters, at, disk>>
  PROVE  IInv'
<1>1. at = FirstFile /\ Typed /\ Active /\ Active'
  BY DEF IInv, Cursor, Active
<1>2. Len(Folders) \in Nat /\ Len(yaml_configs_list') \in Nat
  BY FoldersAssumption
<1>3. Typed'
  BY <1>1, <1>2 DEF Typed, FirstFile, Pairs
<1>4. FiltersFound'
  <2>1. OfThisRun' = OfThisRun
    BY DEF OfThisRun, Found
  <2> QED BY <1>1, <2>1 DEF IInv, FiltersFound, Found
<1>5. Cursor'
  <2>1. 1 \in Tables' => Len(yaml_configs_list'[1].yaml_files) >= 1
                         /\ Len(yaml_configs_list'[1].yaml_files) \in Nat
    <3>1. 1 \in Tables' => yaml_configs_list'[1] \in Entry
      BY DEF Tables
    <3>2. 1 \in Tables' => Len(yaml_configs_list'[1].yaml_files) \in Nat
      BY <3>1 DEF Entry
    <3> QED BY <3>2 DEF Lists
  <2> QED BY <1>1, <1>2, <2>1 DEF Cursor, AllStored, FirstFile, FilesIn, Tables, Collected
<1>6. Disk'
  <2>1. \A k \in Tables' : \A i \in FilesIn(k)' : ~Passed(k, i)'
    <3>1. Tables' \subseteq Nat \ {0} /\ \A k \in Tables' : FilesIn(k)' \subseteq Nat \ {0}
      BY <1>2 DEF Tables, FilesIn
    <3> QED BY <1>1, <3>1, NonePassed DEF Passed
  <2>2. \A name \in DOMAIN disk : IsOld(name)
    BY DEF IInv, Disk
  <2> QED BY <1>1, <2>1, <2>2 DEF IInv, Disk, DiskTyped, PassedAreWritten, IsOld
<1> QED BY <1>3, <1>4, <1>5, <1>6 DEF IInv

\* A source table that is new gets a folder of its own.
LEMMA AddNewFolderIInv ==
  ASSUME IInv, AddNewFolder PROVE IInv'
<1> DEFINE e == [folder |-> Folders[ind], yaml_files |-> Sublists(ind)]
           N == Len(yaml_configs_list)
<1>1. /\ stage = "adding" /\ ind \in Pairs /\ PlacesOf(Folders[ind]) = {}
      /\ yaml_configs_list' = Append(yaml_configs_list, e) /\ ind' = ind + 1
      /\ UNCHANGED <<run, stage, partition_filters, at, disk>>
  BY DEF AddNewFolder
<1>2. Typed /\ FiltersFound /\ Active /\ N \in Nat /\ ind \in Nat
  BY <1>1, NumbersTyped DEF IInv, Active
<1>3. e \in Entry
  <2>1. Folders[ind] \in ToSet(Folders)
    BY <1>1, FoldersAssumption DEF Pairs, ToSet
  <2> QED BY <1>1, <1>2, <2>1, SublistsOfPair DEF Entry
<1>4. /\ yaml_configs_list' \in Seq(Entry) /\ Len(yaml_configs_list') = N + 1
      /\ \A k \in 1..N : yaml_configs_list'[k] = yaml_configs_list[k]
      /\ yaml_configs_list'[N + 1] = e
  <2> HIDE DEF e
  <2> QED BY <1>1, <1>2, <1>3 DEF Typed
<1>5. Lists'
  <2>1. \A k \in Tables' : Len(yaml_configs_list'[k].yaml_files) >= 1
    BY <1>1, <1>2, <1>4, SublistsOfPair DEF IInv, Lists, Tables
  <2>2. ASSUME NEW k \in Tables', NEW i \in FilesIn(k)'
        PROVE  FileHolds(yaml_configs_list'[k].yaml_files[i], run', ind',
                         yaml_configs_list'[k].folder, i)
    <3>1. CASE k \in 1..N
      <4>1. k \in Tables /\ i \in FilesIn(k) /\ yaml_configs_list'[k] = yaml_configs_list[k]
        BY <1>4, <3>1 DEF Tables, FilesIn
      <4>2. FileHolds(yaml_configs_list[k].yaml_files[i], run, ind + 1,
                      yaml_configs_list[k].folder, i)
        BY <1>2, <4>1, FileTyped, StillHolds DEF IInv, Lists
      <4> QED BY <1>1, <4>1, <4>2
    <3>2. CASE k = N + 1
      <4>1. /\ yaml_configs_list'[k].yaml_files = Sublists(ind) /\ i \in 1..Len(Sublists(ind))
            /\ yaml_configs_list'[k].folder = Folders[ind]
        BY <1>4, <3>2 DEF FilesIn
      <4> QED BY <1>1, <1>2, <4>1, SublistsOfPair
    <3> QED BY <1>2, <1>4, <3>1, <3>2 DEF Tables
  <2>3. ASSUME NEW pair \in 1..(ind' - 1) PROVE PairCollected(pair)'
    <3>1. CASE pair \in 1..(ind - 1)
      <4>1. PICK k \in Tables :
              /\ yaml_configs_list[k].folder = Folders[pair]
              /\ FilesHold(yaml_configs_list[k].yaml_files, run, pair, Len(partition_filters[pair]))
        BY <1>2, <3>1 DEF IInv, Lists, PairCollected
      <4>2. k \in Tables' /\ yaml_configs_list'[k] = yaml_configs_list[k]
        BY <1>2, <1>4 DEF Tables
      <4> QED BY <1>1, <4>1, <4>2 DEF PairCollected
    <3>2. CASE pair = ind
      <4>1. N + 1 \in Tables' /\ yaml_configs_list'[N + 1].folder = Folders[pair]
            /\ yaml_configs_list'[N + 1].yaml_files = Sublists(pair)
        BY <1>2, <1>4, <3>2 DEF Tables
      <4>2. FilesHold(Sublists(pair), run, pair, Len(partition_filters[pair]))
        BY <1>1, <1>2, <3>2, SublistsOfPair
      <4> QED BY <1>1, <4>1, <4>2 DEF PairCollected
    <3> QED BY <1>1, <1>2, <3>1, <3>2
  <2>4. OneTableForAFolder'
    <3>1. \A k \in 1..N : yaml_configs_list[k].folder # Folders[ind]
      BY <1>1 DEF PlacesOf
    <3> QED BY <1>2, <1>4, <3>1 DEF IInv, Lists, OneTableForAFolder, Tables
  <2> QED BY <2>1, <2>2, <2>3, <2>4 DEF Lists
<1> QED BY <1>1, <1>4, <1>5, AddingIInv

\* One list at the end of another.
LEMMA Joined ==
  ASSUME NEW s \in Seq(PartitionRecord), NEW t \in Seq(PartitionRecord)
  PROVE  /\ s \o t \in Seq(PartitionRecord)
         /\ \A j \in 1..Len(s) : j \in 1..Len(s \o t) /\ (s \o t)[j] = s[j]
         /\ \A j \in 1..Len(t) : Len(s) + j \in 1..Len(s \o t) /\ (s \o t)[Len(s) + j] = t[j]
OBVIOUS

\* The partitions of one more pair at the end of a file.
LEMMA JoinedHolds ==
  ASSUME NEW file \in Seq(PartitionRecord), NEW sub \in Seq(PartitionRecord),
         NEW r, NEW pair \in Nat, NEW fold, NEW i,
         FileHolds(file, r, pair, fold, i), FileHolds(sub, r, pair + 1, fold, i),
         \A j \in 1..Len(sub) : sub[j].pair = pair
  PROVE  FileHolds(file \o sub, r, pair + 1, fold, i)
<1> DEFINE new == file \o sub
<1>1. Len(file) \in Nat \ {0} /\ Len(sub) \in Nat /\ Len(new) = Len(file) + Len(sub)
  BY DEF FileHolds
<1>2. /\ \A j \in 1..Len(file) : new[j] = file[j]
      /\ \A j \in 1..Len(new) : j \notin 1..Len(file) =>
           j - Len(file) \in 1..Len(sub) /\ new[j] = sub[j - Len(file)]
  BY <1>1
<1> HIDE DEF new
<1>3. FileHolds(file, r, pair + 1, fold, i)
  BY StillHolds
<1>4. \A j \in 1..Len(new) : Belongs(new[j], r, pair + 1, fold, i)
  BY <1>1, <1>2, <1>3 DEF FileHolds
<1>5. \A j \in 1..Len(file) : new[j].pair < pair
  BY <1>2 DEF FileHolds, Belongs
<1>6. \A j \in 1..Len(new) : j \notin 1..Len(file) => new[j].pair = pair
  BY <1>2
<1>7. ASSUME NEW j \in 1..Len(new), NEW l \in 1..Len(new), new[j] = new[l] PROVE j = l
  <2>1. j \in 1..Len(file) <=> l \in 1..Len(file)
    BY <1>5, <1>6, <1>7
  <2>2. CASE j \in 1..Len(file)
    BY <1>2, <1>7, <2>1, <2>2 DEF FileHolds
  <2>3. CASE j \notin 1..Len(file)
    <3>1. j - Len(file) = l - Len(file)
      BY <1>2, <1>7, <2>1, <2>3, SMTT(30) DEF FileHolds
    <3> QED BY <1>1, <3>1
  <2> QED BY <2>2, <2>3
<1>8. Len(new) >= 1
  BY <1>1
<1>9. ASSUME NEW j \in 1..Len(new), NEW l \in 1..Len(new), new[j].pair = new[l].pair, j < l
      PROVE  new[j].part < new[l].part
  <2>1. j \in 1..Len(file) <=> l \in 1..Len(file)
    BY <1>5, <1>6, <1>9
  <2>2. CASE j \in 1..Len(file)
    BY <1>2, <1>9, <2>1, <2>2 DEF FileHolds, InOrder
  <2>3. CASE j \notin 1..Len(file)
    <3>1. /\ j - Len(file) \in 1..Len(sub) /\ new[j] = sub[j - Len(file)]
          /\ l - Len(file) \in 1..Len(sub) /\ new[l] = sub[l - Len(file)]
      BY <1>2, <2>1, <2>3
    <3>2. j - Len(file) < l - Len(file)
      BY <1>1, <1>9
    <3> QED BY <1>9, <3>1, <3>2 DEF FileHolds, InOrder
  <2> QED BY <2>2, <2>3
<1>10. FileHolds(new, r, pair + 1, fold, i)
  BY <1>4, <1>7, <1>8, <1>9 DEF FileHolds, InOrder
<1> QED BY <1>10 DEF new

\* The files of a folder that is extended: nothing is lost, and each file holds what
\* belongs in it (ExtendFolder).
LEMMA ExtendedHolds ==
  ASSUME NEW list \in Seq(Seq(PartitionRecord)), NEW subs \in Seq(Seq(PartitionRecord)),
         Len(subs) <= Len(list), NEW r, NEW pair \in Nat, NEW fold,
         \A i \in 1..Len(list) : FileHolds(list[i], r, pair, fold, i),
         \A i \in 1..Len(subs) :
           /\ FileHolds(subs[i], r, pair + 1, fold, i)
           /\ \A j \in 1..Len(subs[i]) : subs[i][j].pair = pair
  PROVE  LET new == Extended(list, subs)
         IN /\ new \in Seq(Seq(PartitionRecord)) /\ Len(new) = Len(list)
            /\ \A i \in 1..Len(list) : FileHolds(new[i], r, pair + 1, fold, i)
            /\ \A q, count : FilesHold(list, r, q, count) \/ FilesHold(subs, r, q, count)
                               => FilesHold(new, r, q, count)
<1> DEFINE new == Extended(list, subs)
<1>1. Len(list) \in Nat /\ Len(subs) \in Nat
  OBVIOUS
<1>2. \A i \in 1..Len(list) :
        list[i] \in Seq(PartitionRecord) /\ (i <= Len(subs) => subs[i] \in Seq(PartitionRecord))
  BY <1>1
<1>3. \A i \in 1..Len(list) :
        new[i] = IF i <= Len(subs) THEN list[i] \o subs[i] ELSE list[i]
  BY DEF Extended
<1>4. ASSUME NEW i \in 1..Len(list) PROVE new[i] \in Seq(PartitionRecord)
  <2>1. CASE i <= Len(subs)
    <3>1. new[i] = list[i] \o subs[i] /\ list[i] \in Seq(PartitionRecord)
          /\ subs[i] \in Seq(PartitionRecord)
      BY <1>2, <1>3, <2>1
    <3> HIDE DEF new
    <3> QED BY <3>1, Joined
  <2>2. CASE ~(i <= Len(subs))
    BY <1>2, <1>3, <2>2
  <2> QED BY <2>1, <2>2
<1>5. new \in Seq(Seq(PartitionRecord)) /\ Len(new) = Len(list)
  <2>1. new = [i \in 1..Len(list) |-> new[i]]
    BY DEF Extended
  <2> HIDE DEF new
  <2>2. new \in [1..Len(list) -> Seq(PartitionRecord)]
    BY <1>4, <2>1
  <2> DEFINE S == Seq(PartitionRecord)
             n == Len(list)
  <2>3. n \in Nat /\ new \in [1..n -> S]
    BY <1>1, <2>2
  <2> HIDE DEF S, n
  <2>4. new \in Seq(S) /\ Len(new) = n
    BY <2>3
  <2> QED BY <2>4 DEF S, n
<1> HIDE DEF new
<1>6. ASSUME NEW i \in 1..Len(list) PROVE FileHolds(new[i], r, pair + 1, fold, i)
  <2>1. CASE i <= Len(subs)
    <3>1. i \in 1..Len(subs)
      BY <1>1, <2>1
    <3> QED BY <1>2, <1>3, <2>1, <3>1, JoinedHolds
  <2>2. CASE ~(i <= Len(subs))
    BY <1>2, <1>3, <2>2, StillHolds
  <2> QED BY <2>1, <2>2
<1>7. ASSUME NEW i \in 1..Len(list), NEW j \in 1..Len(list[i])
      PROVE  j \in 1..Len(new[i]) /\ new[i][j] = list[i][j]
  <2>1. CASE i <= Len(subs)
    <3>1. list[i] \in Seq(PartitionRecord) /\ subs[i] \in Seq(PartitionRecord)
      BY <1>2, <2>1
    <3>2. new[i] = list[i] \o subs[i]
      BY <1>3, <2>1
    <3>3. \A l \in 1..Len(list[i]) : l \in 1..Len(list[i] \o subs[i])
                                      /\ (list[i] \o subs[i])[l] = list[i][l]
      BY <3>1, Joined
    <3> QED BY <3>2, <3>3
  <2>2. CASE ~(i <= Len(subs))
    BY <1>3, <2>2
  <2> QED BY <2>1, <2>2
<1>8. ASSUME NEW i \in 1..Len(subs), NEW j \in 1..Len(subs[i])
      PROVE  \E l \in 1..Len(new[i]) : new[i][l] = subs[i][j]
  <2>1. i \in 1..Len(list) /\ i <= Len(subs)
    BY <1>1
  <2>2. list[i] \in Seq(PartitionRecord) /\ subs[i] \in Seq(PartitionRecord)
    BY <1>2, <2>1
  <2>3. new[i] = list[i] \o subs[i]
    BY <1>3, <2>1
  <2>4. Len(list[i]) + j \in 1..Len(new[i]) /\ new[i][Len(list[i]) + j] = subs[i][j]
    <3>1. \A l \in 1..Len(subs[i]) :
            /\ Len(list[i]) + l \in 1..Len(list[i] \o subs[i])
            /\ (list[i] \o subs[i])[Len(list[i]) + l] = subs[i][l]
      BY <2>2, Joined
    <3> QED BY <2>3, <3>1
  <2> QED BY <2>4
<1>9. ASSUME NEW q, NEW count, FilesHold(list, r, q, count) \/ FilesHold(subs, r, q, count)
      PROVE  FilesHold(new, r, q, count)
  <2>1. CASE FilesHold(list, r, q, count)
    BY <1>5, <1>7, <2>1 DEF FilesHold
  <2>2. CASE FilesHold(subs, r, q, count)
    <3>1. ASSUME NEW n \in 1..count
          PROVE  /\ FileOf(n) \in 1..Len(new)
                 /\ \E l \in 1..Len(new[FileOf(n)]) : new[FileOf(n)][l] = Partition(r, q, n)
      <4>1. PICK j \in 1..Len(subs[FileOf(n)]) : subs[FileOf(n)][j] = Partition(r, q, n)
        BY <2>2 DEF FilesHold
      <4>2. FileOf(n) \in 1..Len(subs) /\ FileOf(n) \in 1..Len(new)
        BY <1>1, <1>5, <2>2 DEF FilesHold
      <4> QED BY <1>8, <4>1, <4>2
    <3> QED BY <3>1 DEF FilesHold
  <2> QED BY <1>9, <2>1, <2>2
<1> QED BY <1>5, <1>6, <1>9 DEF new

\* A repeated source table: its partitions go to the files of the folder it already has.
LEMMA ExtendFolderIInv ==
  ASSUME IInv, ExtendFolder PROVE IInv'
<1> DEFINE N == Len(yaml_configs_list)
           fold == Folders[ind]
           subs == Sublists(ind)
<1>1. /\ stage = "adding" /\ ind \in Pairs /\ ind' = ind + 1
      /\ UNCHANGED <<run, stage, partition_filters, at, disk>>
  BY DEF ExtendFolder
<1>2. PICK place \in PlacesOf(fold) :
        /\ Len(subs) <= Len(yaml_configs_list[place].yaml_files)
        /\ yaml_configs_list' =
             [yaml_configs_list EXCEPT ![place].yaml_files = Extended(@, subs)]
  BY DEF ExtendFolder
<1> DEFINE list == yaml_configs_list[place].yaml_files
           new == Extended(list, subs)
<1>3. Typed /\ FiltersFound /\ Lists /\ Active /\ N \in Nat /\ ind \in Nat
  BY <1>1, NumbersTyped DEF IInv, Active
<1>4. /\ place \in Tables /\ yaml_configs_list[place].folder = fold
      /\ yaml_configs_list[place] \in Entry /\ list \in Seq(Seq(PartitionRecord))
  <2>1. place \in Tables /\ yaml_configs_list[place].folder = fold
    BY <1>2 DEF PlacesOf, Tables
  <2>2. yaml_configs_list[place] \in Entry
    BY <1>3, <2>1 DEF Typed, Tables
  <2> QED BY <2>1, <2>2 DEF Entry
<1>5. /\ subs \in Seq(Seq(PartitionRecord))
      /\ \A i \in 1..Len(subs) : /\ FileHolds(subs[i], run, ind + 1, fold, i)
                                 /\ \A j \in 1..Len(subs[i]) : subs[i][j].pair = ind
      /\ FilesHold(subs, run, ind, Len(partition_filters[ind]))
  BY <1>1, <1>3, SublistsOfPair
<1>6. \A i \in 1..Len(list) : FileHolds(list[i], run, ind, fold, i)
  BY <1>3, <1>4 DEF Lists, FilesIn
<1> HIDE DEF subs, list, fold, new
<1>7. /\ new \in Seq(Seq(PartitionRecord)) /\ Len(new) = Len(list)
      /\ \A i \in 1..Len(list) : FileHolds(new[i], run, ind + 1, fold, i)
      /\ \A q, count : FilesHold(list, run, q, count) \/ FilesHold(subs, run, q, count)
                         => FilesHold(new, run, q, count)
  BY <1>2, <1>3, <1>4, <1>5, <1>6, ExtendedHolds DEF list, new
<1>8. /\ Len(yaml_configs_list') = N
      /\ \A k \in Tables : k # place => yaml_configs_list'[k] = yaml_configs_list[k]
      /\ yaml_configs_list'[place] = [yaml_configs_list[place] EXCEPT !.yaml_files = new]
  BY <1>2, <1>3, <1>4 DEF Typed, Tables, list, new
<1>9. yaml_configs_list'[place].folder = fold /\ yaml_configs_list'[place].yaml_files = new
  BY <1>4, <1>8 DEF Entry
<1>10. yaml_configs_list' \in Seq(Entry)
  <2>1. [yaml_configs_list[place] EXCEPT !.yaml_files = new] \in Entry
    BY <1>4, <1>7 DEF Entry
  <2> QED BY <1>2, <1>3, <1>4, <2>1 DEF Typed, Tables, list, new
<1>11. Tables' = Tables
  BY <1>8 DEF Tables
<1>12. Lists'
  <2>1. \A k \in Tables' : Len(yaml_configs_list'[k].yaml_files) >= 1
    BY <1>3, <1>4, <1>7, <1>8, <1>9, <1>11 DEF Lists, list
  <2>2. ASSUME NEW k \in Tables', NEW i \in FilesIn(k)'
        PROVE  FileHolds(yaml_configs_list'[k].yaml_files[i], run', ind',
                         yaml_configs_list'[k].folder, i)
    <3>1. CASE k = place
      BY <1>1, <1>7, <1>9, <3>1 DEF FilesIn
    <3>2. CASE k # place
      <4>1. k \in Tables /\ i \in FilesIn(k) /\ yaml_configs_list'[k] = yaml_configs_list[k]
        BY <1>8, <1>11, <3>2 DEF FilesIn
      <4>2. FileHolds(yaml_configs_list[k].yaml_files[i], run, ind + 1,
                      yaml_configs_list[k].folder, i)
        BY <1>3, <4>1, FileTyped, StillHolds DEF Lists
      <4> QED BY <1>1, <4>1, <4>2
    <3> QED BY <3>1, <3>2
  <2>3. ASSUME NEW pair \in 1..(ind' - 1) PROVE PairCollected(pair)'
    <3>1. CASE pair \in 1..(ind - 1)
      <4>1. PICK k \in Tables :
              /\ yaml_configs_list[k].folder = Folders[pair]
              /\ FilesHold(yaml_configs_list[k].yaml_files, run, pair, Len(partition_filters[pair]))
        BY <1>3, <3>1 DEF Lists, PairCollected
      <4>2. /\ k \in Tables' /\ yaml_configs_list'[k].folder = Folders[pair]
            /\ FilesHold(yaml_configs_list'[k].yaml_files, run, pair, Len(partition_filters[pair]))
        <5>1. CASE k = place
          BY <1>4, <1>7, <1>9, <1>11, <4>1, <5>1 DEF list
        <5>2. CASE k # place
          BY <1>8, <1>11, <4>1, <5>2
        <5> QED BY <5>1, <5>2
      <4> QED BY <1>1, <4>2 DEF PairCollected
    <3>2. CASE pair = ind
      <4>1. FilesHold(new, run, ind, Len(partition_filters[ind]))
        BY <1>5, <1>7
      <4> QED BY <1>1, <1>4, <1>9, <1>11, <3>2, <4>1 DEF PairCollected, fold
    <3> QED BY <1>1, <1>3, <3>1, <3>2
  <2>4. OneTableForAFolder'
    <3>1. \A k \in Tables : yaml_configs_list'[k].folder = yaml_configs_list[k].folder
      BY <1>4, <1>8, <1>9
    <3> QED BY <1>3, <1>11, <3>1 DEF Lists, OneTableForAFolder
  <2> QED BY <2>1, <2>2, <2>3, <2>4 DEF Lists
<1> QED BY <1>1, <1>10, <1>12, AddingIInv

-----------------------------------------------------------------------------
(* The steps that write the files.                                         *)

\* The loops that write begin at the first file.
LEMMA StorePartitionsIInv ==
  ASSUME IInv, StorePartitions PROVE IInv'
<1>1. /\ stage = "adding" /\ stage' = "storing" /\ ind > Len(Folders) /\ at' = FirstFile
      /\ UNCHANGED <<run, partition_filters, yaml_configs_list, ind, disk>>
  BY DEF StorePartitions
<1>2. at' = at /\ ind = Len(Folders) + 1
  BY <1>1, NumbersTyped, FoldersAssumption DEF IInv, Typed, Cursor
<1>3. Active /\ Active' /\ stage' \in Stages
  BY <1>1 DEF Active, Stages
<1>4. Cursor'
  BY <1>1, <1>2 DEF IInv, Cursor, AllStored, FilesIn
<1> QED BY <1>1, <1>2, <1>3, <1>4, StageIInv

\* Success is reported when every file is written.
LEMMA PartitionsWrittenIInv ==
  ASSUME IInv, PartitionsWritten PROVE IInv'
<1>1. /\ stage = "storing" /\ stage' = "done" /\ AllStored
      /\ UNCHANGED <<run, partition_filters, yaml_configs_list, ind, at, disk>>
  BY DEF PartitionsWritten
<1>2. Active /\ Active' /\ stage' \in Stages
  BY <1>1 DEF Active, Stages
<1>3. Cursor'
  BY <1>1 DEF IInv, Cursor, AllStored, FilesIn, Collected
<1> QED BY <1>1, <1>2, <1>3, StageIInv

\* The file the loops are at: it is none of those that are written already.
LEMMA AtFile ==
  ASSUME IInv, Active, ~AllStored
  PROVE  /\ at.table \in Tables /\ at.yaml_file \in FilesIn(at.table)
         /\ target_file = NameOf(at.table, at.yaml_file)
         /\ target_file \in [folder : ToSet(Folders), index : Nat]
         /\ yaml_config \in Seq(PartitionRecord)
         /\ FileHolds(yaml_config, run, ind, table.folder, at.yaml_file)
         /\ \A k \in Tables : \A i \in FilesIn(k) :
              Passed(k, i) => NameOf(k, i) # target_file
<1>1. at.table \in Nat \ {0} /\ Len(yaml_configs_list) \in Nat
  BY NumbersTyped DEF IInv, Typed
<1>2. at.table \in Tables /\ at.yaml_file \in FilesIn(at.table)
  BY <1>1 DEF IInv, AllStored, Cursor, Tables
<1>3. /\ table \in Entry /\ table.yaml_files[at.yaml_file] \in Seq(PartitionRecord)
      /\ at.yaml_file \in Nat \ {0}
  BY <1>2, FileTyped DEF IInv, table, FilesIn
<1>4. target_file = NameOf(at.table, at.yaml_file)
  BY DEF target_file, NameOf, table
<1>5. target_file \in [folder : ToSet(Folders), index : Nat]
  BY <1>3 DEF target_file, FileName, Entry
<1>6. FileHolds(yaml_config, run, ind, table.folder, at.yaml_file)
  BY <1>2 DEF IInv, Lists, yaml_config, table
<1>7. ASSUME NEW k \in Tables, NEW i \in FilesIn(k), Passed(k, i)
      PROVE  NameOf(k, i) # target_file
  <2>1. CASE k = at.table
    <3>1. i < at.yaml_file /\ i \in Nat
      BY <1>1, <1>7, <2>1 DEF Passed, FilesIn
    <3> QED BY <1>3, <3>1 DEF NameOf, target_file, FileName
  <2>2. CASE k # at.table
    BY <1>2, <2>2 DEF IInv, Lists, OneTableForAFolder, NameOf, target_file, table, FileName
  <2> QED BY <2>1, <2>2
<1> QED BY <1>2, <1>3, <1>4, <1>5, <1>6, <1>7 DEF yaml_config

\* What write_file does to the directory.
LEMMA Written ==
  ASSUME NEW name, NEW content, Put(name, content)
  PROVE  /\ DOMAIN disk' = DOMAIN disk \cup {name} /\ disk'[name] = content
         /\ \A n \in DOMAIN disk : n # name => disk'[n] = disk[n]
BY DEF Put

\* The beginning of what belongs in a file.
LEMMA Beginning ==
  ASSUME NEW file \in Seq(PartitionRecord), NEW n \in 0..(Len(file) - 1)
  PROVE  /\ SubSeq(file, 1, n) \in Seq(PartitionRecord)
         /\ Len(SubSeq(file, 1, n)) = n
         /\ \A j \in 1..n : j \in 1..Len(file) /\ SubSeq(file, 1, n)[j] = file[j]
OBVIOUS

\* A local file is emptied and filled bit by bit: what the loops are past stays.
LEMMA InPartIInv ==
  ASSUME IInv, stage \in {"storing", "writing"}, stage' = "writing", ~AllStored,
         NEW n \in 0..(Len(yaml_config) - 1), Put(target_file, SubSeq(yaml_config, 1, n)),
         UNCHANGED <<run, partition_filters, yaml_configs_list, ind, at>>
  PROVE  IInv'
<1>1. Active /\ Active'
  BY DEF Active
<1>2. Typed' /\ FiltersFound'
  <2>1. Typed'
    BY DEF IInv, Typed, Stages
  <2>2. FiltersFound'
    BY <1>1 DEF IInv, FiltersFound, OfThisRun, Found
  <2> QED BY <2>1, <2>2
<1>3. Lists'
  BY <1>1 DEF IInv, Lists, Tables, FilesIn, PairCollected, OneTableForAFolder
<1>4. Cursor'
  BY DEF IInv, Cursor, AllStored, FilesIn, Collected
<1>5. Disk'
  <2> DEFINE part == SubSeq(yaml_config, 1, n)
  <2>1. /\ DOMAIN disk' = DOMAIN disk \cup {target_file} /\ disk'[target_file] = part
        /\ \A m \in DOMAIN disk : m # target_file => disk'[m] = disk[m]
    BY Written
  <2>2. /\ target_file \in [folder : ToSet(Folders), index : Nat]
        /\ yaml_config \in Seq(PartitionRecord)
        /\ FileHolds(yaml_config, run, ind, table.folder, at.yaml_file)
        /\ \A k \in Tables : \A i \in FilesIn(k) : Passed(k, i) => NameOf(k, i) # target_file
    BY <1>1, AtFile
  <2>3. target_file' = target_file /\ yaml_config' = yaml_config /\ ~AllStored'
    BY DEF target_file, yaml_config, table, AllStored
  <2>4. ASSUME NEW name, name = target_file PROVE IsCut(name)'
    BY <2>1, <2>3, <2>4 DEF IsCut
  <2>5. part \in Seq(PartitionRecord) /\ \A j \in 1..Len(part) : part[j].run = run
    <3>1. /\ part \in Seq(PartitionRecord) /\ Len(part) = n
          /\ \A j \in 1..n : j \in 1..Len(yaml_config) /\ part[j] = yaml_config[j]
      BY <2>2, Beginning
    <3> QED BY <2>2, <3>1 DEF FileHolds, Belongs
  <2> HIDE DEF target_file, part
  <2>6. DiskTyped'
    <3>1. ASSUME NEW name \in DOMAIN disk, name # target_file
          PROVE  /\ name \in [folder : ToSet(Folders), index : Nat]
                 /\ disk'[name] \in Seq(PartitionRecord)
                 /\ \A j \in 1..Len(disk'[name]) : disk'[name][j].run <= run'
      BY <2>1, <3>1 DEF IInv, Disk, DiskTyped
    <3>2. /\ disk'[target_file] \in Seq(PartitionRecord)
          /\ \A j \in 1..Len(disk'[target_file]) : disk'[target_file][j].run <= run'
      BY <2>1, <2>5, NumbersTyped DEF IInv
    <3> QED BY <2>1, <2>2, <3>1, <3>2 DEF DiskTyped
  <2>7. PassedAreWritten'
    BY <1>1, <2>1, <2>2 DEF IInv, Disk, PassedAreWritten, Tables, FilesIn, Passed, NameOf
  <2>8. ASSUME NEW name \in DOMAIN disk' PROVE IsPassed(name)' \/ IsOld(name)' \/ IsCut(name)'
    <3>1. CASE name = target_file
      BY <2>4, <3>1
    <3>2. CASE name # target_file
      <4>1. name \in DOMAIN disk /\ disk'[name] = disk[name]
        BY <2>1, <3>2
      <4>2. IsPassed(name) \/ IsOld(name)
        BY <1>1, <3>2, <4>1 DEF IInv, Disk, IsCut
      <4> QED BY <4>1, <4>2 DEF IsPassed, IsOld, Tables, FilesIn, Passed, NameOf
    <3> QED BY <3>1, <3>2
  <2> QED BY <2>6, <2>7, <2>8 DEF Disk
<1> QED BY <1>2, <1>3, <1>4, <1>5 DEF IInv

\* Opening a local file leaves none of its validations.
LEMMA OpenFileIInv ==
  ASSUME IInv, OpenFile PROVE IInv'
<1>1. /\ stage = "storing" /\ stage' = "writing" /\ ~AllStored
      /\ Put(target_file, Truncated)
      /\ UNCHANGED <<run, partition_filters, yaml_configs_list, ind, at>>
  BY DEF OpenFile
<1>2. /\ yaml_config \in Seq(PartitionRecord)
      /\ FileHolds(yaml_config, run, ind, table.folder, at.yaml_file)
  BY <1>1, AtFile DEF Active
<1>3. 0 \in 0..(Len(yaml_config) - 1) /\ Truncated = SubSeq(yaml_config, 1, 0)
  BY <1>2 DEF FileHolds, Truncated
<1> HIDE DEF yaml_config
<1> QED BY <1>1, <1>3, InPartIInv

\* Writing a part of a local file leaves the first of its validations.
LEMMA WriteSomeIInv ==
  ASSUME IInv, WriteSome PROVE IInv'
BY InPartIInv DEF WriteSome, IInv, Cursor

\* The loops go on by one file.
LEMMA OneFileOn ==
  ASSUME IInv, Active, ~AllStored, at' = NextFile, UNCHANGED yaml_configs_list
  PROVE  /\ at' \in [table : 1..(Len(yaml_configs_list) + 1), yaml_file : Nat \ {0}]
         /\ ~AllStored' => at'.yaml_file \in FilesIn(at'.table)
         /\ \A k \in Tables : \A i \in FilesIn(k) :
              Passed(k, i)' <=> Passed(k, i) \/ (k = at.table /\ i = at.yaml_file)
<1> DEFINE t == at.table
           y == at.yaml_file
           L == Len(table.yaml_files)
<1>1. t \in Nat \ {0} /\ Len(yaml_configs_list) \in Nat /\ t <= Len(yaml_configs_list)
  BY NumbersTyped DEF IInv, Typed, AllStored
<1>2. t \in Tables /\ y \in 1..L /\ L \in Nat
  <2>1. t \in Tables /\ y \in FilesIn(t)
    BY AtFile
  <2>2. table.yaml_files \in Seq(Seq(PartitionRecord))
    BY <2>1, FileTyped DEF Entry, table, IInv
  <2> QED BY <2>1, <2>2 DEF FilesIn, table
<1>3. at = [table |-> t, yaml_file |-> y]
  BY DEF IInv, Typed
<1>4. at' = IF y < L THEN [table |-> t, yaml_file |-> y + 1]
                     ELSE [table |-> t + 1, yaml_file |-> 1]
  BY <1>3 DEF NextFile
<1>5. \A k \in Tables : k \in Nat /\ FilesIn(k) \subseteq Nat \ {0}
  BY <1>1 DEF Tables, FilesIn
<1>6. \A k \in Tables : Len(yaml_configs_list[k].yaml_files) >= 1
  BY DEF IInv, Lists
<1>7. FilesIn(t) = 1..L
  BY DEF FilesIn, table
<1> HIDE DEF L, t, y
<1>8. CASE y < L
  <2>1. at'.table = t /\ at'.yaml_file = y + 1
    BY <1>4, <1>8
  <2> QED BY <1>1, <1>2, <1>4, <1>5, <1>7, <1>8, <2>1 DEF AllStored, Passed, t, y
<1>9. CASE ~(y < L)
  <2>1. at'.table = t + 1 /\ at'.yaml_file = 1
    BY <1>4, <1>9
  <2>2. y = L
    BY <1>2, <1>9
  <2>3. \A k \in Tables : \A i \in FilesIn(k) :
          Passed(k, i)' <=> Passed(k, i) \/ (k = t /\ i = y)
    <3>1. \A i \in FilesIn(t) : i <= y /\ i \in Nat
      BY <1>2, <1>7, <2>2
    <3> QED BY <1>1, <1>2, <1>5, <2>1, <3>1 DEF Passed, t, y
  <2>4. ~AllStored' => 1 \in FilesIn(t + 1)
    <3>1. ~AllStored' => t + 1 \in Tables
      BY <1>1, <2>1 DEF AllStored, Tables
    <3> QED BY <1>6, <3>1, FileTyped DEF FilesIn, IInv, Entry
  <2> QED BY <1>1, <1>4, <1>9, <2>1, <2>3, <2>4 DEF t, y
<1> QED BY <1>8, <1>9

\* The file is written whole, and the loops are past it.
LEMMA WriteFileIInv ==
  ASSUME IInv, WriteFile PROVE IInv'
<1>1. /\ stage \in {"storing", "writing"} /\ stage' = "storing"
      /\ Put(target_file, yaml_config) /\ at' = NextFile
      /\ UNCHANGED <<run, partition_filters, yaml_configs_list, ind>>
  BY DEF WriteFile
<1>2. Active /\ Active' /\ Collected /\ ~AllStored
  BY DEF WriteFile, Active, Collected, IInv, Cursor
<1>3. /\ at' \in [table : 1..(Len(yaml_configs_list) + 1), yaml_file : Nat \ {0}]
      /\ ~AllStored' => at'.yaml_file \in FilesIn(at'.table)
      /\ \A k \in Tables : \A i \in FilesIn(k) :
           Passed(k, i)' <=> Passed(k, i) \/ (k = at.table /\ i = at.yaml_file)
  BY <1>1, <1>2, OneFileOn
<1>4. /\ at.table \in Tables /\ at.yaml_file \in FilesIn(at.table)
      /\ target_file = NameOf(at.table, at.yaml_file)
      /\ target_file \in [folder : ToSet(Folders), index : Nat]
      /\ yaml_config \in Seq(PartitionRecord)
      /\ FileHolds(yaml_config, run, ind, table.folder, at.yaml_file)
      /\ \A k \in Tables : \A i \in FilesIn(k) : Passed(k, i) => NameOf(k, i) # target_file
  BY <1>2, AtFile
<1>5. /\ DOMAIN disk' = DOMAIN disk \cup {target_file} /\ disk'[target_file] = yaml_config
      /\ \A n \in DOMAIN disk : n # target_file => disk'[n] = disk[n]
  BY <1>1, Written
<1>6. yaml_config = yaml_configs_list[at.table].yaml_files[at.yaml_file]
  BY DEF yaml_config, table
<1> HIDE DEF target_file, yaml_config
<1>7. Typed' /\ FiltersFound'
  BY <1>1, <1>2, <1>3 DEF IInv, Typed, FiltersFound, OfThisRun, Found, Stages
<1>8. Lists'
  BY <1>1, <1>2 DEF IInv, Lists, Tables, FilesIn, PairCollected, OneTableForAFolder
<1>9. Cursor'
  BY <1>1, <1>2, <1>3 DEF IInv, Cursor, FilesIn, Collected
<1>10. Disk'
  <2>1. DiskTyped'
    <3>1. \A j \in 1..Len(yaml_config) : yaml_config[j].run = run
      BY <1>4 DEF FileHolds, Belongs
    <3> QED BY <1>1, <1>4, <1>5, <3>1, NumbersTyped DEF IInv, Disk, DiskTyped
  <2>2. PassedAreWritten'
    <3>1. ASSUME NEW k \in Tables, NEW i \in FilesIn(k), Passed(k, i)'
          PROVE  /\ NameOf(k, i) \in DOMAIN disk'
                 /\ disk'[NameOf(k, i)] = yaml_configs_list[k].yaml_files[i]
      <4>1. CASE Passed(k, i)
        BY <1>2, <1>4, <1>5, <4>1 DEF IInv, Disk, PassedAreWritten
      <4>2. CASE k = at.table /\ i = at.yaml_file
        BY <1>4, <1>5, <1>6, <4>2
      <4> QED BY <1>3, <3>1, <4>1, <4>2
    <3> QED BY <1>1, <3>1 DEF PassedAreWritten, Tables, FilesIn, NameOf
  <2>3. ASSUME NEW name \in DOMAIN disk' PROVE IsPassed(name)' \/ IsOld(name)'
    <3>1. CASE name = target_file
      BY <1>1, <1>3, <1>4, <3>1 DEF IsPassed, Tables, FilesIn, NameOf
    <3>2. CASE name # target_file
      <4>1. name \in DOMAIN disk /\ disk'[name] = disk[name]
        BY <1>5, <3>2
      <4>2. IsPassed(name) \/ IsOld(name)
        BY <1>2, <3>2, <4>1 DEF IInv, Disk, IsCut
      <4>3. IsPassed(name) => IsPassed(name)'
        BY <1>1, <1>3 DEF IsPassed, Tables, FilesIn, NameOf
      <4>4. IsOld(name) => IsOld(name)'
        BY <1>1, <4>1 DEF IsOld
      <4> QED BY <4>2, <4>3, <4>4
    <3> QED BY <3>1, <3>2
  <2> QED BY <1>1, <2>1, <2>2, <2>3 DEF Disk
<1> QED BY <1>7, <1>8, <1>9, <1>10 DEF IInv

-----------------------------------------------------------------------------
(* The invariant holds always.                                             *)

\* The command has not run yet: nothing is collected, nothing is on disk.
THEOREM InitIInv == Init => IInv
<1> SUFFICES ASSUME Init PROVE IInv
  OBVIOUS
<1>1. /\ run = 0 /\ stage = "idle" /\ partition_filters = <<>> /\ yaml_configs_list = <<>>
      /\ ind = 1 /\ at = FirstFile /\ disk = [name \in {} |-> <<>>]
  BY DEF Init
<1>2. Len(Folders) \in Nat
  BY FoldersAssumption
<1>3. <<>> \in Seq(Entry) /\ Len(<<>>) = 0
  OBVIOUS
<1>4. Typed
  BY <1>1, <1>2, <1>3, MaxRunsAssumption DEF Typed, FirstFile, Stages
<1>5. ~Active /\ ~Collected
  BY <1>1, FoundDiffers DEF Active, Collected, OfThisRun
<1>6. FiltersFound /\ Lists
  BY <1>1, <1>3, <1>5 DEF FiltersFound, Lists, Tables
<1>7. Cursor
  BY <1>1, <1>3, <1>5 DEF Cursor, AllStored, FirstFile
<1>8. Disk
  BY <1>1, <1>5 DEF Disk, DiskTyped
<1> QED BY <1>4, <1>6, <1>7, <1>8 DEF IInv

\* Each step of a run keeps what was collected and what is written in agreement.
THEOREM NextIInv == IInv /\ [Next]_vars => IInv'
<1> SUFFICES ASSUME IInv, [Next]_vars PROVE IInv'
  OBVIOUS
<1>1. CASE ExtendFolderRaises \/ Killed
  BY <1>1, RaisesIInv DEF ExtendFolderRaises, Killed
<1>2. CASE UNCHANGED vars
  <2>1. UNCHANGED <<run, stage, partition_filters, yaml_configs_list, ind, at, disk>>
    BY <1>2 DEF vars
  <2>2. Typed' /\ FiltersFound'
    BY <2>1 DEF IInv, Typed, FiltersFound, OfThisRun, Found, Active
  <2>3. Lists'
    BY <2>1 DEF IInv, Lists, Active, OfThisRun, Found, Tables, FilesIn, PairCollected,
                OneTableForAFolder
  <2>4. Cursor'
    BY <2>1 DEF IInv, Cursor, AllStored, FilesIn, Collected
  <2>5. Disk'
    <3>1. Active' = Active /\ DiskTyped' = DiskTyped /\ PassedAreWritten' = PassedAreWritten
      BY <2>1 DEF Active, OfThisRun, Found, DiskTyped, PassedAreWritten, Tables, FilesIn,
                  Passed, NameOf
    <3>2. \A name : /\ IsPassed(name)' = IsPassed(name) /\ IsOld(name)' = IsOld(name)
                   /\ IsCut(name)' = IsCut(name)
      BY <2>1 DEF IsPassed, IsOld, IsCut, Tables, FilesIn, Passed, NameOf, AllStored,
                  target_file, yaml_config, table
    <3> QED BY <2>1, <3>1, <3>2 DEF IInv, Disk
  <2> QED BY <2>2, <2>3, <2>4, <2>5 DEF IInv
<1> QED
  BY <1>1, <1>2, GetPartitionKeyFiltersIInv, GetPartitionKeyFiltersRaisesIInv,
     AddNewFolderIInv, ExtendFolderIInv, StorePartitionsIInv, OpenFileIInv, WriteSomeIInv,
     WriteFileIInv, PartitionsWrittenIInv DEF Next, Generate, NoMoreRuns

\* In every reachable state the run has collected, and written where it is past them,
\* exactly the partitions it found, each in its file.
LEMMA AlwaysIInv == Spec => []IInv
BY InitIInv, NextIInv, PTL DEF Spec

\* The state has its types, whatever runs came before.
THEOREM TypeCorrect == Spec => []TypeOK
<1>1. ASSUME IInv PROVE TypeOK
  <2>1. stage \in {"idle", "adding", "storing", "writing", "done", "raised"}
    BY <1>1 DEF IInv, Typed, Stages
  <2>2. ASSUME NEW p \in Partitions PROVE p.run \in 1..run /\ p.pair \in Pairs
    <3>1. PICK pair \in 1..Len(partition_filters) :
                 \E n \in 1..Len(partition_filters[pair]) : p = partition_filters[pair][n]
      BY DEF Partitions
    <3>2. partition_filters # <<>>
      BY <3>1
    <3>3. PICK r \in 1..run : \E counts \in [Pairs -> PartCounts] :
                                partition_filters = Found(r, counts)
      BY <1>1, <3>2 DEF IInv, FiltersFound
    <3>4. PICK counts \in [Pairs -> PartCounts] : partition_filters = Found(r, counts)
      BY <3>3
    <3>5. Len(Folders) \in Nat
      BY FoldersAssumption
    <3>6. Len(partition_filters) = Len(Folders)
      BY <3>4, <3>5 DEF Found, Pairs
    <3>7. pair \in Pairs /\ counts[pair] \in Nat
      BY <3>6, PartCountsAssumption DEF Pairs
    <3>8. partition_filters[pair] = [n \in 1..counts[pair] |-> Partition(r, pair, n)]
      BY <3>4, <3>7 DEF Found
    <3>9. \E n \in 1..counts[pair] : p = Partition(r, pair, n)
      BY <3>1, <3>7, <3>8
    <3> QED BY <3>7, <3>9 DEF Partition
  <2> QED BY <1>1, <2>1, <2>2 DEF TypeOK, IInv, Typed, Cursor, Disk, DiskTyped
<1> QED BY <1>1, AlwaysIInv, PTL

-----------------------------------------------------------------------------
(* What a run that reports success has done.                               *)

\* When all is stored, each file that was collected is on disk under its name.
LEMMA AllWritten ==
  ASSUME IInv, stage = "done", NEW k \in Tables, NEW i \in FilesIn(k)
  PROVE  /\ NameOf(k, i) \in Readable
         /\ disk[NameOf(k, i)] = yaml_configs_list[k].yaml_files[i]
         /\ FileHolds(disk[NameOf(k, i)], run, ind, yaml_configs_list[k].folder, i)
<1>1. Active /\ AllStored
  BY DEF IInv, Active, Cursor
<1>2. Passed(k, i)
  BY <1>1, NumbersTyped DEF IInv, Typed, AllStored, Passed, Tables
<1>3. NameOf(k, i) \in DOMAIN disk /\ disk[NameOf(k, i)] = yaml_configs_list[k].yaml_files[i]
  BY <1>1, <1>2 DEF IInv, Disk, PassedAreWritten
<1>4. FileHolds(disk[NameOf(k, i)], run, ind, yaml_configs_list[k].folder, i)
  BY <1>1, <1>3 DEF IInv, Lists
<1>5. disk[NameOf(k, i)] # <<>>
  BY <1>4 DEF FileHolds
<1> QED BY <1>3, <1>4, <1>5 DEF Readable, Truncated

\* A file that holds a partition of this run is one that this run wrote.
LEMMA HolderIsWritten ==
  ASSUME IInv, stage = "done", NEW p, p.run = run, NEW name \in Holding(p)
  PROVE  \E k \in Tables : \E i \in FilesIn(k) :
           name = NameOf(k, i) /\ Belongs(p, run, ind, yaml_configs_list[k].folder, i)
<1>1. PICK j \in 1..Len(disk[name]) : disk[name][j] = p
  BY DEF Holding
<1>2. name \in DOMAIN disk
  BY DEF Holding, Readable
<1>3. ~IsOld(name)
  BY <1>1, NumbersTyped DEF IInv, IsOld
<1>4. IsPassed(name)
  BY <1>2, <1>3 DEF IInv, Disk, Active, Cursor, IsCut
<1>5. PICK k \in Tables : \E i \in FilesIn(k) : name = NameOf(k, i)
  BY <1>4 DEF IsPassed
<1>6. PICK i \in FilesIn(k) : name = NameOf(k, i)
  BY <1>5
<1>7. Belongs(p, run, ind, yaml_configs_list[k].folder, i)
  BY <1>1, <1>6, AllWritten DEF FileHolds
<1> QED BY <1>6, <1>7

\* A partition of the present run.
LEMMA PartitionOfRun ==
  ASSUME IInv, Active, NEW p \in Partitions
  PROVE  \E pair \in Pairs : \E n \in 1..Len(partition_filters[pair]) :
           p = Partition(run, pair, n) /\ n \in Nat \ {0}
<1>1. Typed /\ FiltersFound
  BY DEF IInv
<1>2. PICK counts \in [Pairs -> PartCounts] : partition_filters = Found(run, counts)
  BY <1>1 DEF FiltersFound, OfThisRun
<1>3. Len(partition_filters) = Len(Folders)
  <2>1. Len(Folders) \in Nat
    BY FoldersAssumption
  <2> QED BY <1>2, <2>1 DEF Found, Pairs
<1>4. PICK pair \in 1..Len(partition_filters) :
        \E n \in 1..Len(partition_filters[pair]) : p = partition_filters[pair][n]
  BY DEF Partitions
<1>5. pair \in Pairs
  BY <1>3, <1>4 DEF Pairs
<1>6. PICK n \in 1..Len(partition_filters[pair]) : p = partition_filters[pair][n]
  BY <1>4
<1>7. p = Partition(run, pair, n) /\ n \in Nat \ {0}
  BY <1>1, <1>5, <1>6, FiltersOfPair
<1> QED BY <1>5, <1>6, <1>7

\* When the command reports success each partition is in one file, once, in the folder of
\* its source table, however the pairs share folders and whatever the directory held before
\* (_add_partition_filters, _store_partitions).
THEOREM OneFileEach == Spec => []EveryPartitionInOneFile
<1>1. ASSUME IInv PROVE EveryPartitionInOneFile
  <2> SUFFICES ASSUME stage = "done", NEW p \in Partitions
               PROVE  \E name \in Readable :
                        /\ Holding(p) = {name}
                        /\ name.folder = Folders[p.pair]
                        /\ Cardinality({i \in 1..Len(disk[name]) : disk[name][i] = p}) = 1
    BY DEF EveryPartitionInOneFile
  <2>0. PICK pair \in Pairs : \E n \in 1..Len(partition_filters[pair]) : p = Partition(run, pair, n)
    BY <1>1, PartitionOfRun DEF Active
  <2>1. PICK n \in 1..Len(partition_filters[pair]) : p = Partition(run, pair, n)
    BY <2>0
  <2>2. p.run = run /\ p.pair = pair /\ p.part = n
    BY <2>1 DEF Partition
  <2>3. PairCollected(pair)
    <3>1. Active /\ ind = Len(Folders) + 1
      BY <1>1 DEF Active, IInv, Cursor, Collected
    <3>2. pair \in 1..(ind - 1)
      BY <3>1, FoldersAssumption DEF Pairs
    <3> QED BY <1>1, <3>1, <3>2 DEF IInv, Lists
  <2>4. PICK k \in Tables :
          /\ yaml_configs_list[k].folder = Folders[pair]
          /\ FileOf(n) \in FilesIn(k)
          /\ \E j \in 1..Len(yaml_configs_list[k].yaml_files[FileOf(n)]) :
               yaml_configs_list[k].yaml_files[FileOf(n)][j] = p
    BY <2>1, <2>3 DEF PairCollected, FilesHold, FilesIn
  <2> DEFINE name == NameOf(k, FileOf(n))
  <2>5. /\ name \in Readable /\ disk[name] = yaml_configs_list[k].yaml_files[FileOf(n)]
        /\ FileHolds(disk[name], run, ind, yaml_configs_list[k].folder, FileOf(n))
    BY <1>1, <2>4, AllWritten
  <2>6. PICK j \in 1..Len(disk[name]) : disk[name][j] = p
    BY <2>4, <2>5
  <2>7. name \in Holding(p)
    BY <2>5, <2>6 DEF Holding
  <2>8. ASSUME NEW other \in Holding(p) PROVE other = name
    <3>1. PICK l \in Tables : \E i \in FilesIn(l) :
            other = NameOf(l, i) /\ Belongs(p, run, ind, yaml_configs_list[l].folder, i)
      BY <1>1, <2>2, HolderIsWritten
    <3> QED BY <2>2, <2>4, <3>1 DEF Belongs, NameOf
  <2>9. name.folder = Folders[p.pair]
    BY <2>2, <2>4 DEF NameOf, FileName
  <2>10. {i \in 1..Len(disk[name]) : disk[name][i] = p} = {j}
    BY <2>5, <2>6 DEF FileHolds
  <2>11. Cardinality({j}) = 1
    BY FS_Singleton
  <2> HIDE DEF name
  <2> QED BY <2>5, <2>7, <2>8, <2>9, <2>10, <2>11
<1> QED BY <1>1, AlwaysIInv, PTL

\* The number of a file says which partitions of a pair it holds: parts_per_file of them,
\* without a gap, but in the last file (list_to_sublists).
THEOREM FileNumbersMeanRanges == Spec => []FilesAreFull
<1>1. ASSUME IInv PROVE FilesAreFull
  <2> SUFFICES ASSUME stage = "done", NEW p \in Partitions, NEW name \in Readable,
                      name \in Holding(p)
               PROVE  name.index = (p.part - 1) \div parts_per_file
    BY DEF FilesAreFull
  <2>1. p.run = run /\ p.part \in Nat \ {0}
    BY <1>1, PartitionOfRun DEF Partition, Active
  <2>2. \E k \in Tables : \E i \in FilesIn(k) :
          name = NameOf(k, i) /\ Belongs(p, run, ind, yaml_configs_list[k].folder, i)
    BY <1>1, <2>1, HolderIsWritten
  <2>3. name.index = FileOf(p.part) - 1
    BY <2>2 DEF Belongs, NameOf, FileName
  <2>4. (p.part - 1) \div parts_per_file \in Nat
    <3>1. p.part - 1 \in Nat
      BY <2>1
    <3> QED BY <3>1, PartsPerFileAssumption, Division
  <2> QED BY <2>3, <2>4 DEF FileOf
<1> QED BY <1>1, AlwaysIInv, PTL

-----------------------------------------------------------------------------
(* What a run that was ended early has left.                               *)

\* The numbers of the files follow those of the partitions.
LEMMA FileOfGrows ==
  ASSUME NEW m \in Nat \ {0}, NEW n \in Nat \ {0}, m < n
  PROVE  FileOf(m) \in Nat \ {0} /\ FileOf(n) \in Nat \ {0} /\ FileOf(m) <= FileOf(n)
<1> DEFINE size == parts_per_file
           a == (m - 1) \div size
           b == (n - 1) \div size
<1>1. size \in Nat \ {0} /\ m - 1 \in Nat /\ n - 1 \in Nat
  BY PartsPerFileAssumption
<1>2. /\ a \in Nat /\ a * size <= m - 1
      /\ b \in Nat /\ n - 1 < b * size + size
  <2>1. \A x \in Nat : /\ x \div size \in Nat
                       /\ (x \div size) * size <= x /\ x < (x \div size) * size + size
    BY <1>1, Division
  <2> QED BY <1>1, <2>1
<1> HIDE DEF a, b
<1>3. a <= b
  <2> SUFFICES ASSUME b + 1 <= a PROVE FALSE
    BY <1>2
  <2>1. (b + 1) * size <= a * size
    BY <1>1, <1>2
  <2>2. (b + 1) * size = b * size + size
    BY <1>1, <1>2
  <2>3. b * size \in Nat /\ a * size \in Nat
    BY <1>1, <1>2
  <2> QED BY <1>1, <1>2, <2>1, <2>2, <2>3
<1> QED BY <1>2, <1>3 DEF FileOf, a, b

\* A run whose partitions are about is one that got its filters.
LEMMA PartitionsOfActive ==
  ASSUME IInv, NEW p \in Partitions, p.run = run PROVE Active
<1>1. PICK pair \in 1..Len(partition_filters) :
        \E n \in 1..Len(partition_filters[pair]) : p = partition_filters[pair][n]
  BY DEF Partitions
<1>2. partition_filters # <<>>
  BY <1>1
<1>3. PICK r \in 1..run : \E counts \in [Pairs -> PartCounts] : partition_filters = Found(r, counts)
  BY <1>2 DEF IInv, FiltersFound
<1>4. PICK counts \in [Pairs -> PartCounts] : partition_filters = Found(r, counts)
  BY <1>3
<1>5. Len(partition_filters) = Len(Folders)
  <2>1. Len(Folders) \in Nat
    BY FoldersAssumption
  <2> QED BY <1>4, <2>1 DEF Found, Pairs
<1>6. pair \in Pairs /\ counts[pair] \in Nat
  BY <1>1, <1>5, PartCountsAssumption DEF Pairs
<1>7. partition_filters[pair] = [n \in 1..counts[pair] |-> Partition(r, pair, n)]
  BY <1>4, <1>6 DEF Found
<1>8. \E n \in 1..counts[pair] : p = Partition(r, pair, n)
  BY <1>1, <1>6, <1>7
<1>9. r = run
  BY <1>8 DEF Partition
<1> QED BY <1>4, <1>9 DEF Active, OfThisRun, IInv, Typed, Stages

\* The loops are past a file, and all of it is on disk.
LEMMA PassedHeld ==
  ASSUME IInv, Active, NEW k \in Tables, NEW i \in FilesIn(k), Passed(k, i),
         NEW x \in 1..Len(yaml_configs_list[k].yaml_files[i])
  PROVE  Holding(yaml_configs_list[k].yaml_files[i][x]) # {}
<1>1. NameOf(k, i) \in DOMAIN disk /\ disk[NameOf(k, i)] = yaml_configs_list[k].yaml_files[i]
  BY DEF IInv, Disk, PassedAreWritten
<1>2. Len(yaml_configs_list[k].yaml_files[i]) >= 1
  BY DEF IInv, Lists, FileHolds
<1>3. NameOf(k, i) \in Readable
  BY <1>1, <1>2 DEF Readable, Truncated
<1> QED BY <1>1, <1>3 DEF Holding

\* Where a partition of the present run comes from that is on disk: what is before it in
\* its file is on disk as well, and the loops are past the files before that one.
LEMMA HeldInOrder ==
  ASSUME IInv, Active, NEW p, p.run = run, Holding(p) # {}
  PROVE  \E k \in Tables : \E i \in FilesIn(k) :
           \E x \in 1..Len(yaml_configs_list[k].yaml_files[i]) :
             /\ yaml_configs_list[k].yaml_files[i][x] = p
             /\ \A y \in 1..x : Holding(yaml_configs_list[k].yaml_files[i][y]) # {}
             /\ \A h \in FilesIn(k) : h < i => Passed(k, h)
<1>1. PICK name \in Holding(p) : TRUE
  OBVIOUS
<1>2. PICK x \in 1..Len(disk[name]) : disk[name][x] = p
  BY <1>1 DEF Holding
<1>3. name \in DOMAIN disk
  BY <1>1 DEF Holding, Readable
<1>4. ~IsOld(name)
  BY <1>2, NumbersTyped DEF IInv, IsOld
<1>5. IsPassed(name) \/ IsCut(name)
  BY <1>3, <1>4 DEF IInv, Disk
<1>6. CASE IsPassed(name)
  <2>1. PICK k \in Tables : \E i \in FilesIn(k) : Passed(k, i) /\ name = NameOf(k, i)
    BY <1>6 DEF IsPassed
  <2>2. PICK i \in FilesIn(k) : Passed(k, i) /\ name = NameOf(k, i)
    BY <2>1
  <2> DEFINE file == yaml_configs_list[k].yaml_files[i]
  <2>3. disk[name] = file
    BY <2>2 DEF IInv, Disk, PassedAreWritten
  <2>4. \A y \in 1..x : y \in 1..Len(file)
    <3>1. file \in Seq(PartitionRecord)
      BY FileTyped DEF IInv
    <3> HIDE DEF file
    <3>2. Len(file) \in Nat /\ x \in 1..Len(file)
      BY <1>2, <2>3, <3>1
    <3> QED BY <3>2
  <2>5. \A y \in 1..x : Holding(file[y]) # {}
    BY <2>2, <2>4, PassedHeld
  <2>6. \A h \in FilesIn(k) : h < i => Passed(k, h)
    BY <2>2, NumbersTyped DEF Passed, FilesIn, Tables, IInv, Typed
  <2> QED BY <1>2, <2>3, <2>5, <2>6
<1>7. CASE IsCut(name)
  <2>1. PICK n \in 0..(Len(yaml_config) - 1) : disk[name] = SubSeq(yaml_config, 1, n)
    BY <1>7 DEF IsCut
  <2>2. /\ at.table \in Tables /\ at.yaml_file \in FilesIn(at.table)
        /\ yaml_config \in Seq(PartitionRecord)
    BY <1>7, AtFile DEF IsCut
  <2> DEFINE k == at.table
             i == at.yaml_file
             file == yaml_configs_list[k].yaml_files[i]
  <2>3. yaml_config = file
    BY DEF yaml_config, table
  <2> HIDE DEF file
  <2>4. /\ Len(disk[name]) = n /\ Len(file) \in Nat /\ n \in 0..(Len(file) - 1)
        /\ \A j \in 1..n : j \in 1..Len(file) /\ disk[name][j] = file[j]
    BY <2>1, <2>2, <2>3, Beginning
  <2>5. x \in 1..Len(file) /\ file[x] = p /\ \A y \in 1..x : y \in 1..n
    BY <1>2, <2>4
  <2>6. name \in Readable
    BY <1>1 DEF Holding
  <2>7. \A y \in 1..x : Holding(file[y]) # {}
    BY <2>4, <2>5, <2>6 DEF Holding
  <2>8. \A h \in FilesIn(k) : h < i => Passed(k, h)
    BY DEF Passed
  <2> QED BY <2>2, <2>5, <2>7, <2>8 DEF file
<1> QED BY <1>5, <1>6, <1>7

\* A run that is ended early, in the middle of a file too, has left of each pair the first
\* partitions and no others of its own, whatever files were there before and however the
\* pairs share folders (_store_partitions, write_file).
THEOREM InterruptedLeavesNoHole == Spec => []StoredPartitionsAreFirst
<1>1. ASSUME IInv PROVE StoredPartitionsAreFirst
  <2> SUFFICES ASSUME NEW p \in Partitions, NEW q \in Partitions, p.run = run,
                      q.pair = p.pair, q.part < p.part, Holding(p) # {}
               PROVE  Holding(q) # {}
    BY DEF StoredPartitionsAreFirst
  <2>1. Active
    BY <1>1, PartitionsOfActive
  <2>2. PICK pair \in Pairs : \E n \in 1..Len(partition_filters[pair]) :
               p = Partition(run, pair, n) /\ n \in Nat \ {0}
    BY <1>1, <2>1, PartitionOfRun
  <2>3. p.pair = pair /\ p.part \in Nat \ {0}
    BY <2>2 DEF Partition
  <2>4. PICK other \in Pairs : \E n \in 1..Len(partition_filters[other]) :
               q = Partition(run, other, n) /\ n \in Nat \ {0}
    BY <1>1, <2>1, PartitionOfRun
  <2>5. PICK m \in 1..Len(partition_filters[other]) :
               q = Partition(run, other, m) /\ m \in Nat \ {0}
    BY <2>4
  <2>6. other = pair /\ q.part = m /\ q = Partition(run, pair, m)
    BY <2>3, <2>5 DEF Partition
  <2>7. PICK k \in Tables : \E i \in FilesIn(k) :
          \E x \in 1..Len(yaml_configs_list[k].yaml_files[i]) :
            /\ yaml_configs_list[k].yaml_files[i][x] = p
            /\ \A y \in 1..x : Holding(yaml_configs_list[k].yaml_files[i][y]) # {}
            /\ \A h \in FilesIn(k) : h < i => Passed(k, h)
    BY <1>1, <2>1, HeldInOrder
  <2>8. PICK i \in FilesIn(k) :
          \E x \in 1..Len(yaml_configs_list[k].yaml_files[i]) :
            /\ yaml_configs_list[k].yaml_files[i][x] = p
            /\ \A y \in 1..x : Holding(yaml_configs_list[k].yaml_files[i][y]) # {}
            /\ \A h \in FilesIn(k) : h < i => Passed(k, h)
    BY <2>7
  <2> DEFINE file == yaml_configs_list[k].yaml_files[i]
  <2>9. PICK x \in 1..Len(file) :
          /\ file[x] = p
          /\ \A y \in 1..x : Holding(file[y]) # {}
          /\ \A h \in FilesIn(k) : h < i => Passed(k, h)
    BY <2>8
  <2>10. FileHolds(file, run, ind, yaml_configs_list[k].folder, i)
    BY <1>1, <2>1 DEF IInv, Lists
  <2>11. /\ pair < ind /\ Folders[pair] = yaml_configs_list[k].folder
         /\ FileOf(p.part) = i
    BY <2>3, <2>9, <2>10 DEF FileHolds, Belongs
  <2>12. PairCollected(pair)
    <3>1. pair \in 1..(ind - 1)
      BY <1>1, <2>11, NumbersTyped DEF Pairs, IInv
    <3> QED BY <1>1, <2>1, <3>1 DEF IInv, Lists
  <2>13. /\ FileOf(m) \in FilesIn(k)
         /\ \E y \in 1..Len(yaml_configs_list[k].yaml_files[FileOf(m)]) :
              yaml_configs_list[k].yaml_files[FileOf(m)][y] = q
    <3>1. PICK l \in Tables :
            /\ yaml_configs_list[l].folder = Folders[pair]
            /\ FilesHold(yaml_configs_list[l].yaml_files, run, pair,
                         Len(partition_filters[pair]))
      BY <2>12 DEF PairCollected
    <3>2. l = k
      BY <1>1, <2>1, <2>11, <3>1 DEF IInv, Lists, OneTableForAFolder
    <3> QED BY <2>5, <2>6, <3>1, <3>2 DEF FilesHold, FilesIn
  <2>14. FileOf(m) \in Nat \ {0} /\ i \in Nat \ {0} /\ FileOf(m) <= i
    BY <2>3, <2>5, <2>6, <2>11, FileOfGrows
  <2>15. CASE FileOf(m) < i
    <3>1. Passed(k, FileOf(m))
      BY <2>9, <2>13, <2>15
    <3> QED BY <1>1, <2>1, <2>13, <3>1, PassedHeld
  <2>16. CASE FileOf(m) = i
    <3>1. PICK y \in 1..Len(file) : file[y] = q
      BY <2>13, <2>16
    <3>2. ~(x < y) /\ x # y
      <4>1. file[x].pair = file[y].pair /\ ~(file[x].part < file[y].part)
        BY <2>3, <2>5, <2>6, <2>9, <3>1
      <4>2. x = y => p = q
        BY <2>9, <3>1
      <4>3. p # q
        BY <2>3, <2>5, <2>6
      <4>4. ~(x < y)
        BY <2>10, <4>1 DEF FileHolds, InOrder
      <4> QED BY <4>2, <4>3, <4>4
    <3>3. y \in 1..x
      BY <3>1, <3>2
    <3> QED BY <2>9, <3>1, <3>3
  <2> QED BY <2>14, <2>15, <2>16
<1> QED BY <1>1, AlwaysIInv, PTL

-----------------------------------------------------------------------------
(* The job.                                                                *)

Task == 0..(Tasks - 1)

-----------------------------------------------------------------------------
(* The inductive invariant: that of PartitionFiles, and what each task has *)
(* done with the file of its number.                                       *)

JobTyped ==
  /\ kube_completions = TRUE
  /\ pc \in [Task -> {"idle", "next file", "running", "failed", "succeeded"}]
  /\ attempt \in [Task -> Nat]
  /\ files \in [Task -> SUBSET Task]
  /\ validations \in [Task -> Seq(PartitionRecord)]
  /\ IsFiniteSet(DOMAIN disk)

\* The directory rests while the job runs.
JobAfterFiles == JobHasStarted => stage = "done"

\* A task is given the file of its number.  Once it is past that file without having
\* failed, it has stored or has left to run whatever the file holds.
TaskCovers(t) ==
  /\ pc[t] # "idle" => attempt[t] > 0
  /\ files[t] \subseteq {t}
  /\ pc[t] \in {"running", "succeeded"} => files[t] = {}
  /\ pc[t] = "running" => ToSet(validations[t]) \subseteq ToSet(config_dir[t])
  /\ pc[t] \in {"next file", "running", "succeeded"} /\ t \notin files[t] =>
       /\ t \in FileNumbers
       /\ \A v \in ToSet(config_dir[t]) :
            Validated(v) \/ (pc[t] = "running" /\ v \in ToSet(validations[t]))

\* A result is one of the file with the number of its task.
ResultOfFile(r) ==
  /\ r.task \in Task \cap FileNumbers
  /\ attempt[r.task] > 0
  /\ r.validation \in ToSet(config_dir[r.task])

JobInv ==
  /\ IInv
  /\ JobTyped
  /\ JobAfterFiles
  /\ \A t \in Task : TaskCovers(t)
  /\ \A r \in results : ResultOfFile(r)

-----------------------------------------------------------------------------
(* The directory.                                                          *)

\* The files of the job are those of its folder, by number.
LEMMA FileOfJob ==
  ASSUME IInv, NEW i \in FileNumbers
  PROVE  /\ i \in Nat
         /\ [folder |-> folder, index |-> i] \in DOMAIN disk
         /\ config_dir[i] = disk[[folder |-> folder, index |-> i]]
         /\ config_dir[i] \in Seq(PartitionRecord)
<1>1. PICK name \in DOMAIN disk : name.folder = folder /\ name.index = i
  BY DEF FileNumbers
<1>2. name \in [folder : ToSet(Folders), index : Nat]
  BY DEF IInv, Disk, DiskTyped
<1>3. name = [folder |-> folder, index |-> i] /\ i \in Nat
  BY <1>1, <1>2
<1>4. disk[name] \in Seq(PartitionRecord)
  BY DEF IInv, Disk, DiskTyped
<1> QED BY <1>1, <1>3, <1>4 DEF config_dir

\* What the job reads of the directory is the same while no file is written.
LEMMA DirectoryRests ==
  ASSUME UNCHANGED vars PROVE UNCHANGED <<config_dir, FileNumbers>>
BY DEF vars, config_dir, FileNumbers

\* A step of the job is one of generate-table-partitions or leaves the directory alone.
LEMMA JobStepsAreSteps == JobNext => [Next]_vars
BY DEF JobNext, GenerateFiles, RunJob, JobIsOver, NeverDone, Next

\* A directory of finitely many files gets one more at a time.
LEMMA StillFinite ==
  ASSUME IsFiniteSet(DOMAIN disk), [Next]_vars PROVE IsFiniteSet(DOMAIN disk')
<1>1. ASSUME NEW name, NEW content, Put(name, content) PROVE IsFiniteSet(DOMAIN disk')
  <2>1. DOMAIN disk' = DOMAIN disk \cup {name}
    BY <1>1, Written
  <2>2. IsFiniteSet(DOMAIN disk \cup {name})
    BY FS_AddElement
  <2> QED BY <2>1, <2>2
<1>2. CASE OpenFile \/ WriteSome \/ WriteFile
  BY <1>1, <1>2 DEF OpenFile, WriteSome, WriteFile
<1>3. CASE ~(OpenFile \/ WriteSome \/ WriteFile)
  <2>1. UNCHANGED disk
    BY <1>3 DEF Next, Generate, NoMoreRuns, vars, GetPartitionKeyFilters,
       GetPartitionKeyFiltersRaises, AddNewFolder, ExtendFolder, ExtendFolderRaises,
       StorePartitions, PartitionsWritten, Killed
  <2> QED BY <2>1
<1> QED BY <1>2, <1>3

-----------------------------------------------------------------------------
(* The steps of a task.                                                    *)

\* A task stays covered by a step that leaves it alone and only adds results.
LEMMA OtherTaskCovers ==
  ASSUME NEW t \in Task, TaskCovers(t), UNCHANGED vars, results \subseteq results',
         pc'[t] = pc[t], attempt'[t] = attempt[t], files'[t] = files[t],
         validations'[t] = validations[t]
  PROVE  TaskCovers(t)'
<1>1. UNCHANGED <<config_dir, FileNumbers>>
  BY DirectoryRests
<1>2. \A v : Validated(v) => Validated(v)'
  BY DEF Validated
<1> QED BY <1>1, <1>2 DEF TaskCovers

\* The parts of JobInv for a step of task t.
LEMMA StepOfTask ==
  ASSUME JobInv, NEW t \in Task, UNCHANGED vars, stage = "done",
         UNCHANGED kube_completions,
         pc' \in [Task -> {"idle", "next file", "running", "failed", "succeeded"}],
         attempt' \in [Task -> Nat], attempt[t] > 0 => attempt'[t] > 0,
         files' \in [Task -> SUBSET Task], validations' \in [Task -> Seq(PartitionRecord)],
         TaskCovers(t)',
         results \subseteq results', \A r \in results' \ results : ResultOfFile(r),
         \A s \in Task \ {t} :
           /\ pc'[s] = pc[s] /\ attempt'[s] = attempt[s]
           /\ files'[s] = files[s] /\ validations'[s] = validations[s]
  PROVE  JobInv'
<1>1. IInv' /\ IsFiniteSet(DOMAIN disk)' /\ JobAfterFiles'
  BY NextIInv DEF JobInv, JobTyped, JobAfterFiles, vars
<1>2. UNCHANGED <<config_dir, FileNumbers>>
  BY DirectoryRests
<1>3. JobTyped'
  BY <1>1 DEF JobInv, JobTyped
<1>4. ASSUME NEW s \in Task PROVE TaskCovers(s)'
  BY OtherTaskCovers DEF JobInv
<1>5. ASSUME NEW r \in results' PROVE ResultOfFile(r)'
  <2>1. ResultOfFile(r)
    BY DEF JobInv
  <2>2. attempt[r.task] > 0 => attempt'[r.task] > 0
    BY <2>1 DEF ResultOfFile
  <2> QED BY <1>2, <2>1, <2>2 DEF ResultOfFile
<1> QED BY <1>1, <1>3, <1>4, <1>5 DEF JobInv

\* What a validation that runs may add to the results is of the file of its task.
LEMMA ResultAdded ==
  ASSUME JobInv, NEW t \in Task, pc[t] = "running", validations[t] # <<>>
  PROVE  /\ ResultOfFile(Job!Stored(t, Head(validations[t])))
         /\ Tail(validations[t]) \in Seq(PartitionRecord)
         /\ ToSet(validations[t]) = {Head(validations[t])} \cup ToSet(Tail(validations[t]))
<1>1. TaskCovers(t) /\ validations[t] \in Seq(PartitionRecord)
  BY DEF JobInv, JobTyped
<1>2. /\ Tail(validations[t]) \in Seq(PartitionRecord)
      /\ ToSet(validations[t]) = {Head(validations[t])} \cup ToSet(Tail(validations[t]))
  BY <1>1, HeadAndTail
<1>3. t \in FileNumbers /\ attempt[t] > 0 /\ Head(validations[t]) \in ToSet(config_dir[t])
  BY <1>1, <1>2 DEF TaskCovers
<1> QED BY <1>2, <1>3 DEF ResultOfFile, Job!Stored

\* A process that starts is given the file of its number.
LEMMA StartJobInv ==
  ASSUME JobInv, stage = "done", UNCHANGED vars, NEW t \in Task, Job!Start(t)
  PROVE  JobInv'
<1>1. JobTyped /\ attempt[t] \in Nat /\ Job!FilesOf(t) = {t}
  BY DEF JobInv, JobTyped, Job!FilesOf
<1>2. /\ pc' = [pc EXCEPT ![t] = "next file"]
      /\ attempt' = [attempt EXCEPT ![t] = attempt[t] + 1]
      /\ files' = [files EXCEPT ![t] = {t}]
      /\ validations' = [validations EXCEPT ![t] = <<>>]
      /\ UNCHANGED <<kube_completions, results>>
  BY <1>1 DEF Job!Start, Job!Goto, Job!arguments
<1>3. /\ pc' \in [Task -> {"idle", "next file", "running", "failed", "succeeded"}]
      /\ attempt' \in [Task -> Nat] /\ attempt'[t] > 0
      /\ files' \in [Task -> SUBSET Task] /\ validations' \in [Task -> Seq(PartitionRecord)]
      /\ pc'[t] = "next file" /\ files'[t] = {t}
  <2>1. <<>> \in Seq(PartitionRecord) /\ attempt[t] + 1 \in Nat /\ attempt[t] + 1 > 0
    BY <1>1
  <2> QED BY <1>1, <1>2, <2>1 DEF JobTyped
<1>4. TaskCovers(t)'
  BY <1>3 DEF TaskCovers
<1>5. \A s \in Task \ {t} :
        /\ pc'[s] = pc[s] /\ attempt'[s] = attempt[s]
        /\ files'[s] = files[s] /\ validations'[s] = validations[s]
  BY <1>1, <1>2 DEF JobTyped
<1> QED BY <1>2, <1>3, <1>4, <1>5, StepOfTask

\* A file that is loaded exists, and all of it is left to run.
LEMMA BuildConfigManagersJobInv ==
  ASSUME JobInv, stage = "done", UNCHANGED vars, NEW t \in Task, NEW f \in files[t],
         Job!BuildConfigManagers(t, f)
  PROVE  JobInv'
<1>1. JobTyped /\ TaskCovers(t) /\ IInv
  BY DEF JobInv
<1>2. f = t /\ t \in FileNumbers
  BY <1>1 DEF TaskCovers, Job!BuildConfigManagers, Job!Loads, config_dir
<1>3. config_dir[t] \in Seq(PartitionRecord)
  BY <1>1, <1>2, FileOfJob
<1>4. /\ pc[t] = "next file" /\ pc' = [pc EXCEPT ![t] = "running"]
      /\ files' = [files EXCEPT ![t] = files[t] \ {t}]
      /\ validations' = [validations EXCEPT ![t] = config_dir[t]]
      /\ UNCHANGED <<kube_completions, attempt, results>>
  BY <1>2 DEF Job!BuildConfigManagers, Job!Goto, Job!arguments
<1>5. /\ pc' \in [Task -> {"idle", "next file", "running", "failed", "succeeded"}]
      /\ files' \in [Task -> SUBSET Task] /\ validations' \in [Task -> Seq(PartitionRecord)]
      /\ pc'[t] = "running" /\ files'[t] = files[t] \ {t} /\ validations'[t] = config_dir[t]
  BY <1>1, <1>3, <1>4 DEF JobTyped
<1>6. TaskCovers(t)'
  BY <1>1, <1>2, <1>4, <1>5, DirectoryRests DEF TaskCovers
<1>7. /\ attempt' \in [Task -> Nat] /\ (attempt[t] > 0 => attempt'[t] > 0)
      /\ \A s \in Task \ {t} :
           /\ pc'[s] = pc[s] /\ attempt'[s] = attempt[s]
           /\ files'[s] = files[s] /\ validations'[s] = validations[s]
  BY <1>1, <1>4 DEF JobTyped
<1> QED BY <1>4, <1>5, <1>6, <1>7, StepOfTask

\* A task that fails, killed or by an exception, owes nothing until it is started again.
LEMMA FailsJobInv ==
  ASSUME JobInv, stage = "done", UNCHANGED vars, NEW t \in Task, pc[t] # "idle",
         pc' = [pc EXCEPT ![t] = "failed"],
         validations' \in {validations, [validations EXCEPT ![t] = <<>>]},
         UNCHANGED <<kube_completions, attempt, files>>,
         results \subseteq results', \A r \in results' \ results : ResultOfFile(r)
  PROVE  JobInv'
<1>1. JobTyped /\ TaskCovers(t) /\ <<>> \in Seq(PartitionRecord)
  BY DEF JobInv
<1>2. /\ pc' \in [Task -> {"idle", "next file", "running", "failed", "succeeded"}]
      /\ validations' \in [Task -> Seq(PartitionRecord)]
      /\ pc'[t] = "failed"
  BY <1>1 DEF JobTyped
<1>3. TaskCovers(t)'
  BY <1>1, <1>2 DEF TaskCovers
<1>4. /\ attempt' \in [Task -> Nat] /\ (attempt[t] > 0 => attempt'[t] > 0)
      /\ files' \in [Task -> SUBSET Task]
      /\ \A s \in Task \ {t} :
           /\ pc'[s] = pc[s] /\ attempt'[s] = attempt[s]
           /\ files'[s] = files[s] /\ validations'[s] = validations[s]
  BY <1>1 DEF JobTyped
<1> QED BY <1>2, <1>3, <1>4, StepOfTask

\* A validation that stores its result is no longer left to run.
LEMMA RunValidationJobInv ==
  ASSUME JobInv, stage = "done", UNCHANGED vars, NEW t \in Task, Job!RunValidation(t)
  PROVE  JobInv'
<1> DEFINE v == Head(validations[t])
<1>1. JobTyped /\ TaskCovers(t) /\ pc[t] = "running" /\ validations[t] # <<>>
  BY DEF JobInv, Job!RunValidation
<1>2. /\ results' = results \cup {Job!Stored(t, v)}
      /\ validations' = [validations EXCEPT ![t] = Tail(validations[t])]
      /\ UNCHANGED <<kube_completions, pc, attempt, files>>
  BY DEF Job!RunValidation, Job!arguments
<1>3. /\ ResultOfFile(Job!Stored(t, v))
      /\ Tail(validations[t]) \in Seq(PartitionRecord)
      /\ ToSet(validations[t]) = {v} \cup ToSet(Tail(validations[t]))
  BY <1>1, ResultAdded
<1>4. validations' \in [Task -> Seq(PartitionRecord)] /\ validations'[t] = Tail(validations[t])
  BY <1>1, <1>2, <1>3 DEF JobTyped
<1>5. TaskCovers(t)'
  <2>1. UNCHANGED <<config_dir, FileNumbers>>
    BY DirectoryRests
  <2>2. \A w : Validated(w) => Validated(w)'
    BY <1>2 DEF Validated
  <2>3. Job!Stored(t, v) \in results' /\ Job!Stored(t, v).validation = v
    BY <1>2 DEF Job!Stored
  <2>4. ASSUME NEW w, w = v PROVE Validated(w)'
    BY <2>3, <2>4 DEF Validated
  <2> QED BY <1>1, <1>2, <1>3, <1>4, <2>1, <2>2, <2>4 DEF TaskCovers
<1>6. /\ attempt' \in [Task -> Nat] /\ (attempt[t] > 0 => attempt'[t] > 0)
      /\ files' \in [Task -> SUBSET Task]
      /\ pc' \in [Task -> {"idle", "next file", "running", "failed", "succeeded"}]
      /\ \A s \in Task \ {t} :
           /\ pc'[s] = pc[s] /\ attempt'[s] = attempt[s]
           /\ files'[s] = files[s] /\ validations'[s] = validations[s]
  BY <1>1, <1>2 DEF JobTyped
<1> QED BY <1>2, <1>3, <1>4, <1>5, <1>6, StepOfTask

\* A task goes on or succeeds with nothing of its file left to run.
LEMMA GoesOnJobInv ==
  ASSUME JobInv, stage = "done", UNCHANGED vars, NEW t \in Task, NEW next,
         \/ pc[t] = "running" /\ validations[t] = <<>> /\ next = "next file"
         \/ pc[t] = "next file" /\ files[t] = {} /\ next \in {"failed", "succeeded"},
         pc' = [pc EXCEPT ![t] = next],
         UNCHANGED <<kube_completions, attempt, files, validations, results>>
  PROVE  JobInv'
<1>1. JobTyped /\ TaskCovers(t)
  BY DEF JobInv
<1>2. /\ pc' \in [Task -> {"idle", "next file", "running", "failed", "succeeded"}]
      /\ pc'[t] = next
  BY <1>1 DEF JobTyped
<1>3. TaskCovers(t)'
  <2>1. UNCHANGED <<config_dir, FileNumbers>> /\ \A v : Validated(v)' = Validated(v)
    BY DirectoryRests DEF Validated
  <2>2. ASSUME pc[t] = "running" PROVE ToSet(validations[t]) = {}
    BY <2>2, EmptyList
  <2> QED BY <1>1, <1>2, <2>1, <2>2 DEF TaskCovers
<1>4. /\ attempt' \in [Task -> Nat] /\ (attempt[t] > 0 => attempt'[t] > 0)
      /\ files' \in [Task -> SUBSET Task] /\ validations' \in [Task -> Seq(PartitionRecord)]
      /\ \A s \in Task \ {t} :
           /\ pc'[s] = pc[s] /\ attempt'[s] = attempt[s]
           /\ files'[s] = files[s] /\ validations'[s] = validations[s]
  BY <1>1 DEF JobTyped
<1> QED BY <1>2, <1>3, <1>4, StepOfTask

\* Each step of a task, by what it does to the file of the task.
LEMMA RunJobInv == ASSUME JobInv, RunJob PROVE JobInv'
<1>1. PICK t \in Task : Job!Start(t) \/ Job!Work(t) \/ Job!Killed(t)
  BY DEF RunJob, Job!Run, Job!Task, Task
<1>2. stage = "done" /\ UNCHANGED vars /\ kube_completions = TRUE
  BY DEF RunJob, JobInv, JobTyped
<1>3. CASE Job!Start(t)
  BY <1>2, <1>3, StartJobInv
<1>4. ASSUME NEW f \in files[t], Job!BuildConfigManagers(t, f) PROVE JobInv'
  BY <1>2, <1>4, BuildConfigManagersJobInv
<1>5. ASSUME NEW f \in files[t], Job!BuildConfigManagersRaises(t, f) PROVE JobInv'
  BY <1>2, <1>5, FailsJobInv DEF Job!BuildConfigManagersRaises, Job!Goto, Job!arguments
<1>6. CASE Job!RunValidation(t)
  BY <1>2, <1>6, RunValidationJobInv
<1>7. CASE Job!RunValidationRaises(t)
  <2>1. pc[t] = "running" /\ validations[t] # <<>>
        /\ results' \in {results, results \cup {Job!Stored(t, Head(validations[t]))}}
        /\ validations' = [validations EXCEPT ![t] = <<>>]
        /\ pc' = [pc EXCEPT ![t] = "failed"]
        /\ UNCHANGED <<kube_completions, attempt, files>>
    BY <1>2, <1>7 DEF Job!RunValidationRaises, Job!Goto, Job!arguments
  <2>2. ResultOfFile(Job!Stored(t, Head(validations[t])))
    BY <2>1, ResultAdded
  <2>3. results \subseteq results' /\ \A r \in results' \ results : ResultOfFile(r)
    BY <2>1, <2>2
  <2> QED BY <1>2, <2>1, <2>3, FailsJobInv
<1>8. CASE Job!FileDone(t)
  BY <1>2, <1>8, GoesOnJobInv DEF Job!FileDone, Job!Goto, Job!arguments
<1>9. CASE Job!Finish(t)
  <2>1. PICK next \in {"failed", "succeeded"} : pc' = [pc EXCEPT ![t] = next]
    BY <1>9 DEF Job!Finish, Job!Goto
  <2> QED BY <1>2, <1>9, <2>1, GoesOnJobInv DEF Job!Finish, Job!arguments
<1>10. CASE Job!Killed(t)
  BY <1>2, <1>10, FailsJobInv DEF Job!Killed, Job!Goto, Job!arguments
<1> QED BY <1>1, <1>3, <1>4, <1>5, <1>6, <1>7, <1>8, <1>9, <1>10 DEF Job!Work

-----------------------------------------------------------------------------
(* The invariant holds always.                                             *)

\* No task has been started: nothing is owed.
LEMMA JobInitInv == JobInit => JobInv
<1> SUFFICES ASSUME JobInit PROVE JobInv
  OBVIOUS
<1>1. Init /\ kube_completions = TRUE
  BY DEF JobInit
<1>2. /\ pc = [t \in Task |-> "idle"] /\ attempt = [t \in Task |-> 0]
      /\ files = [t \in Task |-> {}] /\ validations = [t \in Task |-> <<>>] /\ results = {}
  BY DEF JobInit, Job!InitTasks, Job!Task, Task
<1>3. IInv
  BY <1>1, InitIInv
<1>4. JobTyped
  <2>1. <<>> \in Seq(PartitionRecord)
    OBVIOUS
  <2>2. IsFiniteSet(DOMAIN disk)
    BY <1>1, FS_EmptySet DEF Init
  <2> QED BY <1>1, <1>2, <2>1, <2>2 DEF JobTyped
<1>5. ~JobHasStarted
  BY <1>2 DEF JobHasStarted, Task
<1>6. \A t \in Task : TaskCovers(t)
  BY <1>2 DEF TaskCovers
<1> QED BY <1>2, <1>3, <1>4, <1>5, <1>6 DEF JobInv, JobAfterFiles

\* While the directory is written no task has been started.
LEMMA FilesJobInv ==
  ASSUME JobInv, [Next]_vars, ~JobHasStarted, UNCHANGED jobVars PROVE JobInv'
<1>1. IInv' /\ IsFiniteSet(DOMAIN disk)'
  BY NextIInv, StillFinite DEF JobInv, JobTyped
<1>2. UNCHANGED <<kube_completions, pc, attempt, files, validations, results>>
  BY DEF jobVars
<1>3. JobTyped' /\ ~JobHasStarted'
  BY <1>1, <1>2 DEF JobInv, JobTyped, JobHasStarted
<1>4. \A t \in Task : ~(attempt[t] > 0)
  BY DEF JobHasStarted, Task
<1>5. ASSUME NEW t \in Task PROVE TaskCovers(t)'
  <2>1. TaskCovers(t) /\ pc[t] = "idle"
    BY <1>4 DEF JobInv, TaskCovers
  <2> QED BY <1>2, <2>1 DEF TaskCovers
<1>6. results' = {}
  BY <1>2, <1>4 DEF JobInv, ResultOfFile
<1> QED BY <1>1, <1>3, <1>5, <1>6 DEF JobInv, JobAfterFiles

\* Each step of the command or of the job keeps the invariant.
LEMMA JobNextInv == JobInv /\ [JobNext]_<<vars, jobVars>> => JobInv'
<1> SUFFICES ASSUME JobInv, [JobNext]_<<vars, jobVars>> PROVE JobInv'
  OBVIOUS
<1>1. CASE GenerateFiles \/ NeverDone
  BY <1>1, FilesJobInv DEF GenerateFiles, NeverDone, Next
<1>2. CASE RunJob
  BY <1>2, RunJobInv
<1>3. CASE UNCHANGED <<vars, jobVars>>
  <2>1. IInv' /\ UNCHANGED <<config_dir, FileNumbers>>
    BY <1>3, NextIInv, DirectoryRests DEF JobInv
  <2>2. UNCHANGED <<stage, disk, kube_completions, pc, attempt, files, validations, results>>
    BY <1>3 DEF vars, jobVars
  <2>3. JobTyped' /\ JobAfterFiles'
    BY <2>2 DEF JobInv, JobTyped, JobAfterFiles, JobHasStarted
  <2>4. \A t \in Task : TaskCovers(t)'
    BY <2>1, <2>2 DEF JobInv, TaskCovers, Validated
  <2>5. \A r \in results' : ResultOfFile(r)'
    BY <2>1, <2>2 DEF JobInv, ResultOfFile
  <2> QED BY <2>1, <2>3, <2>4, <2>5 DEF JobInv
<1> QED BY <1>1, <1>2, <1>3 DEF JobNext, JobIsOver

\* In every reachable state each task accounts for the file of its number.
LEMMA AlwaysJobInv == JobSpec => []JobInv
BY JobInitInv, JobNextInv, PTL DEF JobSpec

\* The end-to-end system is PartitionFiles with a job after it: what the theorems of
\* PartitionFilesProofs say of a directory holds of the directory a job reads.
THEOREM JobImplementsFiles == JobSpec => Spec
<1>1. JobInit => Init
  BY DEF JobInit
<1>2. [JobNext]_<<vars, jobVars>> => [Next]_vars
  BY JobStepsAreSteps
<1> QED BY <1>1, <1>2, PTL DEF JobSpec, Spec

-----------------------------------------------------------------------------
(* What a job has done.                                                    *)

\* A partition of the table is in the file of the folder with its number.
LEMMA WantedFile ==
  ASSUME IInv, stage = "done", EveryPartitionInOneFile, FilesAreFull, NEW p \in Wanted
  PROVE  /\ (p.part - 1) \div parts_per_file \in FileNumbers
         /\ p \in ToSet(config_dir[(p.part - 1) \div parts_per_file])
<1>1. p \in Partitions /\ Folders[p.pair] = folder
  BY DEF Wanted
<1>2. PICK name \in Readable : Holding(p) = {name} /\ name.folder = Folders[p.pair]
  BY <1>1 DEF EveryPartitionInOneFile
<1>3. name.index = (p.part - 1) \div parts_per_file
  BY <1>1, <1>2 DEF FilesAreFull
<1>4. name \in DOMAIN disk /\ \E i \in 1..Len(disk[name]) : disk[name][i] = p
  BY <1>2 DEF Holding, Readable
<1>5. name.index \in FileNumbers
  BY <1>1, <1>2, <1>4 DEF FileNumbers
<1>6. name = [folder |-> folder, index |-> name.index]
  BY <1>1, <1>2, <1>4 DEF IInv, Disk, DiskTyped
<1>7. config_dir[name.index] = disk[name] /\ disk[name] \in Seq(PartitionRecord)
  BY <1>5, <1>6, FileOfJob
<1>8. p \in ToSet(config_dir[name.index])
  BY <1>4, <1>7 DEF ToSet
<1> QED BY <1>3, <1>5, <1>8

\* There are finitely many files.
LEMMA FilesFinite == ASSUME JobInv PROVE IsFiniteSet(FileNumbers)
<1> DEFINE name == [i \in FileNumbers |-> [folder |-> folder, index |-> i]]
<1>1. \A i \in FileNumbers : [folder |-> folder, index |-> i] \in DOMAIN disk
  BY FileOfJob DEF JobInv
<1>2. name \in Injection(FileNumbers, DOMAIN disk)
  BY <1>1 DEF Injection, IsInjective
<1>3. IsFiniteSet(DOMAIN disk)
  BY DEF JobInv, JobTyped
<1> HIDE DEF name
<1> QED BY <1>2, <1>3, FS_Injection

\* A job that succeeded has found a file for each of its tasks and stored all it holds.
LEMMA SucceededTask ==
  ASSUME JobInv, JobSucceeded, NEW t \in Task
  PROVE  t \in FileNumbers /\ \A v \in ToSet(config_dir[t]) : Validated(v)
BY DEF JobInv, TaskCovers, JobSucceeded, Task

\* If every task of the job succeeded and there is no file without a task, each partition of
\* the table has been validated: no partition falls between the files and the indexes,
\* whatever earlier generations left in the directory (README, Scaling DVT).
THEOREM JobCovers == JobSpec => []JobCoversTable
<1>1. ASSUME JobInv, EveryPartitionInOneFile, FilesAreFull PROVE JobCoversTable
  <2> SUFFICES ASSUME JobSucceeded, Cardinality(FileNumbers) <= Tasks, NEW p \in Wanted
               PROVE  Validated(p)
    BY DEF JobCoversTable
  <2>1. stage = "done"
    <3>1. 0 \in Task
      BY TasksAssumption DEF Task
    <3>2. attempt[0] > 0
      BY <1>1, <3>1 DEF JobInv, TaskCovers, JobSucceeded, Task
    <3> QED BY <1>1, <3>1, <3>2 DEF JobInv, JobAfterFiles, JobHasStarted, Task
  <2>2. Task = FileNumbers
    <3>1. Task \in SUBSET FileNumbers
      BY <1>1, SucceededTask
    <3>2. Cardinality(Task) = Tasks
      <4>1. 0 \in Int /\ Tasks - 1 \in Int
        BY TasksAssumption
      <4>2. Cardinality(Task) = IF 0 > Tasks - 1 THEN 0 ELSE Tasks - 1 - 0 + 1
        BY <4>1, FS_Interval DEF Task
      <4> QED BY <4>2, TasksAssumption
    <3>3. IsFiniteSet(FileNumbers) /\ Cardinality(FileNumbers) \in Nat
      BY <1>1, FilesFinite, FS_CardinalityType
    <3>4. Cardinality(Task) <= Cardinality(FileNumbers)
      BY <3>1, <3>3, FS_Subset
    <3>5. Cardinality(FileNumbers) = Cardinality(Task)
      BY <3>2, <3>3, <3>4, TasksAssumption
    <3> QED BY <3>1, <3>3, <3>5, FS_Subset
  <2> QED BY <1>1, <2>1, <2>2, WantedFile, SucceededTask DEF JobInv
<1> QED BY <1>1, AlwaysJobInv, JobImplementsFiles, OneFileEach, FileNumbersMeanRanges, PTL

\* A task whose file has partitions of the last generation runs none of an earlier one:
\* a generation that is done has replaced its files whole, so a task that does is one the
\* last generation had no partitions for (write_file, and the index of the task in
\* build_config_managers).
THEOREM OldFilesOnly == JobSpec => []OldPartitionsOnlyFromOldFiles
<1>1. ASSUME JobInv, EveryPartitionInOneFile, FilesAreFull PROVE OldPartitionsOnlyFromOldFiles
  <2> SUFFICES ASSUME NEW r \in results, NEW p \in Wanted,
                      (p.part - 1) \div parts_per_file = r.task
               PROVE  r.validation.run = run
    BY DEF OldPartitionsOnlyFromOldFiles
  <2>1. r.task \in Task \cap FileNumbers /\ r.validation \in ToSet(config_dir[r.task])
    BY <1>1 DEF JobInv, ResultOfFile
  <2>2. IInv /\ stage = "done"
    BY <1>1 DEF JobInv, ResultOfFile, JobAfterFiles, JobHasStarted, Task
  <2>3. p \in ToSet(config_dir[r.task])
    BY <1>1, <2>2, WantedFile
  <2> DEFINE name == [folder |-> folder, index |-> r.task]
  <2>4. name \in DOMAIN disk /\ config_dir[r.task] = disk[name]
        /\ disk[name] \in Seq(PartitionRecord)
    BY <2>1, <2>2, FileOfJob
  <2>5. p.run = run
    BY <2>2, PartitionOfRun DEF Wanted, Partition, Active
  <2> HIDE DEF name
  <2>6. ~IsOld(name)
    <3>1. PICK j \in 1..Len(disk[name]) : disk[name][j] = p
      BY <2>3, <2>4 DEF ToSet
    <3> QED BY <2>2, <2>5, <3>1, NumbersTyped DEF IInv, IsOld
  <2>7. IsPassed(name)
    BY <2>2, <2>4, <2>6 DEF IInv, Disk, Active, Cursor, IsCut
  <2>8. PICK k \in Tables : \E i \in FilesIn(k) : name = NameOf(k, i)
    BY <2>7 DEF IsPassed
  <2>9. PICK i \in FilesIn(k) : name = NameOf(k, i)
    BY <2>8
  <2>10. \A j \in 1..Len(disk[name]) : disk[name][j].run = run
    BY <2>2, <2>9, AllWritten DEF FileHolds, Belongs
  <2> QED BY <2>1, <2>4, <2>10 DEF ToSet
<1> QED BY <1>1, AlwaysJobInv, JobImplementsFiles, OneFileEach, FileNumbersMeanRanges, PTL
=============================================================================
