-------------------------- MODULE ClientConfigProofs --------------------------
(***************************************************************************)
(* Theorems about the client's configuration: what the readers find in a   *)
(* file that a pairing or a migration wrote, and that overlapping runs     *)
(* never mix two machines.                                                 *)
(***************************************************************************)
EXTENDS ClientConfig, SubsequencesProofs

-----------------------------------------------------------------------------
(* Lines and their readers *)

\* The three keys a pairing sets.
LEMMA PairedKeysAre ==
    /\ PairedKeys \in Seq({"otherhost_name", "host", "known_hosts_file"})
    /\ Len(PairedKeys) = 3
    /\ ToSet(PairedKeys) = {"otherhost_name", "host", "known_hosts_file"}
<1>1. /\ Len(PairedKeys) = 3 /\ PairedKeys[1] = "otherhost_name" /\ PairedKeys[2] = "host"
      /\ PairedKeys[3] = "known_hosts_file" /\ DOMAIN PairedKeys = 1..3
      /\ PairedKeys \in Seq({"otherhost_name", "host", "known_hosts_file"})
  BY DEF PairedKeys
<1>2. ToSet(PairedKeys) = {PairedKeys[1], PairedKeys[2], PairedKeys[3]}
  BY <1>1 DEF ToSet
<1> QED
  BY <1>1, <1>2

\* The value of a key stands in some line; a key without a line has none.
LEMMA LookupIs ==
    ASSUME NEW file \in Seq(Lines), NEW key
    PROVE  /\ \A i \in 1..Len(file) : file[i].key = key =>
                \E j \in 1..Len(file) : file[j].key = key /\ Lookup(file, key) = file[j].value
           /\ (\A i \in 1..Len(file) : file[i].key # key) => Lookup(file, key) = Absent
           /\ Lookup(file, key) = Absent => \A i \in 1..Len(file) : file[i].key # key
<1> DEFINE places == {i \in DOMAIN file : file[i].key = key}
           hits == Keep(file, places)
<1>1. hits = <<>> <=> \A i \in 1..Len(file) : i \notin places
  BY KeepEmpty
<1>2. hits # <<>> => \E i \in 1..Len(file) : i \in places /\ hits[1] = file[i]
  BY KeepFirst
<1>3. \A i \in 1..Len(file) : file[i].value # Absent
  <2>1. \A line \in Lines : line.value \in Runs \cup Texts
    BY DEF Lines
  <2>2. \A i \in 1..Len(file) : file[i] \in Lines
    OBVIOUS
  <2> QED
    BY <2>1, <2>2, ConfigAssumption
<1>4. Lookup(file, key) = IF hits = <<>> THEN Absent ELSE hits[1].value
  BY DEF Lookup
<1> HIDE DEF hits
<1> QED
  BY <1>1, <1>2, <1>3, <1>4

\* Two files with the same lines of a key, in the same order, have the same value.
LEMMA LookupSame ==
    ASSUME NEW file \in Seq(Lines), NEW other \in Seq(Lines), Len(file) = Len(other), NEW key,
           \A i \in 1..Len(file) : \/ file[i] = other[i]
                                   \/ file[i].key # key /\ other[i].key # key
    PROVE  Lookup(file, key) = Lookup(other, key)
<1> DEFINE P == {i \in DOMAIN file : file[i].key = key}
           Q == {i \in DOMAIN other : other[i].key = key}
<1>1. \A i \in 1..Len(file) : (i \in P <=> i \in Q) /\ (i \in P => file[i] = other[i])
  OBVIOUS
<1>2. Keep(file, P) = Keep(other, Q)
  <2> HIDE DEF P, Q
  <2> QED
    BY <1>1, KeepSame
<1> QED
  BY <1>2 DEF Lookup

-----------------------------------------------------------------------------
(* What a pairing writes *)

\* The keys a pairing sets, as a set.
Paired3 == {"otherhost_name", "host", "known_hosts_file"}

\* The keys and values of a line, and the lines a pairing writes among them.
LEMMA LineFacts ==
    /\ Lines = [key : Paired3 \cup {"devbox_name", "ports"}, value : Runs \cup Texts]
    /\ \A line \in Lines : line.key \in Paired3 \cup {"devbox_name", "ports"}
    /\ \A key \in Paired3, r \in Runs :
         /\ ValueFrom(r, key) \in Runs \cup Texts
         /\ Line(key, ValueFrom(r, key)) \in Lines
BY PairedKeysAre DEF Lines, Paired3, Line, ValueFrom, Texts

\* A line of a pairing's key, or of the old name, gets the pairing's value; every other
\* line stays.
LEMMA RewrittenFacts ==
    ASSUME NEW line \in Lines, NEW r \in Runs
    PROVE  /\ Rewritten(line, r) \in Lines
           /\ Rewritten(line, r).key \in Paired3
                => Rewritten(line, r).value = ValueFrom(r, Rewritten(line, r).key)
           /\ line.key \in Paired3 \cup {"devbox_name"} <=> Rewritten(line, r).key \in Paired3
           /\ line.key \notin Paired3 \cup {"devbox_name"} => Rewritten(line, r) = line
           /\ Rewritten(line, r).key # "devbox_name"
<1> DEFINE key == IF line.key = "devbox_name" THEN "otherhost_name" ELSE line.key
<1>1. Rewritten(line, r) = IF key \in Paired3 THEN Line(key, ValueFrom(r, key)) ELSE line
  BY PairedKeysAre DEF Rewritten, Paired3
<1>2. key \in Paired3 <=> line.key \in Paired3 \cup {"devbox_name"}
  BY DEF Paired3
<1> HIDE DEF key
<1>3. CASE key \in Paired3
  <2>1. Rewritten(line, r) = Line(key, ValueFrom(r, key))
    BY <1>1, <1>3
  <2>2. Rewritten(line, r).key = key /\ Rewritten(line, r).value = ValueFrom(r, key)
    BY <2>1 DEF Line
  <2>3. key # "devbox_name"
    BY <1>3 DEF Paired3
  <2> QED
    BY <1>2, <1>3, <2>1, <2>2, <2>3, LineFacts
<1>4. CASE key \notin Paired3
  BY <1>1, <1>2, <1>4
<1> QED
  BY <1>3, <1>4

\* The lines of the file, rewritten, and then the lines of the keys it missed.
LEMMA UpdateUnfolds ==
    ASSUME NEW file \in Seq(Lines), NEW r \in Runs
    PROVE  \E kept \in Seq(Lines), added \in Seq(Lines) :
             /\ Update(file, r) = kept \o added
             /\ Len(kept) = Len(file)
             /\ \A i \in 1..Len(file) : kept[i] = Rewritten(file[i], r)
             /\ \A j \in 1..Len(added) : /\ added[j].key \in Paired3
                                         /\ added[j].value = ValueFrom(r, added[j].key)
             /\ \A key \in Paired3 :
                  \/ \E i \in 1..Len(kept) : kept[i].key = key
                  \/ \E j \in 1..Len(added) : added[j].key = key
<1> DEFINE kept == [i \in DOMAIN file |-> Rewritten(file[i], r)]
           places == {i \in DOMAIN PairedKeys : Lookup(kept, PairedKeys[i]) = Absent}
           missing == Keep(PairedKeys, places)
           added == [i \in DOMAIN missing |-> Line(missing[i], ValueFrom(r, missing[i]))]
<1>1. /\ kept \in Seq(Lines) /\ Len(kept) = Len(file)
      /\ \A i \in 1..Len(file) : kept[i] = Rewritten(file[i], r)
  <2>1. \A i \in 1..Len(file) : Rewritten(file[i], r) \in Lines
    BY RewrittenFacts
  <2> QED
    BY <2>1
<1>2. Update(file, r) = kept \o added
  BY DEF Update
<1>3. missing \in Seq(Paired3) /\ ToSet(missing) = ElementsAt(PairedKeys, places, 3)
  BY PairedKeysAre, KeepType, KeepElements DEF Paired3
<1> HIDE DEF kept, missing
<1>4. /\ added \in Seq(Lines) /\ Len(added) = Len(missing)
      /\ \A j \in 1..Len(missing) : /\ missing[j] \in Paired3
                                    /\ added[j] = Line(missing[j], ValueFrom(r, missing[j]))
  <2>1. \A j \in 1..Len(missing) :
          missing[j] \in Paired3 /\ Line(missing[j], ValueFrom(r, missing[j])) \in Lines
    BY <1>3, LineFacts
  <2> QED
    BY <1>3, <2>1
<1> HIDE DEF added
<1>5. \A j \in 1..Len(added) : /\ added[j].key = missing[j] /\ added[j].key \in Paired3
                               /\ added[j].value = ValueFrom(r, added[j].key)
  <2> TAKE j \in 1..Len(added)
  <2>1. missing[j] \in Paired3 /\ added[j] = Line(missing[j], ValueFrom(r, missing[j]))
    BY <1>4
  <2>2. added[j].key = missing[j] /\ added[j].value = ValueFrom(r, missing[j])
    BY <2>1 DEF Line
  <2> QED
    BY <2>1, <2>2
<1>6. ASSUME NEW key \in Paired3, \A i \in 1..Len(kept) : kept[i].key # key
      PROVE  \E j \in 1..Len(added) : added[j].key = key
  <2>1. Lookup(kept, key) = Absent
    BY <1>1, <1>6, LookupIs
  <2>2. PICK n \in 1..3 : PairedKeys[n] = key
    BY PairedKeysAre DEF Paired3, ToSet
  <2>3. n \in places
    BY <2>1, <2>2, PairedKeysAre
  <2>4. key \in ToSet(missing)
    BY <1>3, <2>2, <2>3 DEF ElementsAt
  <2> QED
    BY <1>4, <1>5, <2>4 DEF ToSet
<1> QED
  BY <1>1, <1>2, <1>4, <1>5, <1>6

-----------------------------------------------------------------------------
\* Whatever the file held, every reader of it finds the pairing's machine; the user's
\* lines stay.
LEMMA UpdateReads ==
    ASSUME NEW file \in Seq(Lines), NEW r \in Runs
    PROVE  /\ Update(file, r) \in Seq(Lines)
           /\ Reading(Update(file, r)) = [name |-> r, host |-> r, strict |-> TRUE]
           /\ OtherLines(Update(file, r)) = OtherLines(file)
<1>1. PICK kept \in Seq(Lines), added \in Seq(Lines) :
        /\ Update(file, r) = kept \o added
        /\ Len(kept) = Len(file)
        /\ \A i \in 1..Len(file) : kept[i] = Rewritten(file[i], r)
        /\ \A j \in 1..Len(added) : /\ added[j].key \in Paired3
                                    /\ added[j].value = ValueFrom(r, added[j].key)
        /\ \A key \in Paired3 :
             \/ \E i \in 1..Len(kept) : kept[i].key = key
             \/ \E j \in 1..Len(added) : added[j].key = key
  BY UpdateUnfolds
<1> DEFINE new == kept \o added
<1>2. /\ new \in Seq(Lines) /\ Len(new) = Len(kept) + Len(added)
      /\ Len(kept) \in Nat /\ Len(added) \in Nat
      /\ \A i \in 1..Len(kept) : new[i] = kept[i]
      /\ \A i \in 1..Len(added) : new[Len(kept) + i] = added[i]
  OBVIOUS
<1> HIDE DEF new
<1>3. ASSUME NEW i \in 1..Len(new), i \notin 1..Len(kept)
      PROVE  \E j \in 1..Len(added) : new[i] = added[j]
  <2>1. i - Len(kept) \in 1..Len(added) /\ i = Len(kept) + (i - Len(kept))
    BY <1>2, <1>3
  <2>2. new[i] = added[i - Len(kept)]
    BY <1>2, <2>1
  <2> QED
    BY <2>1, <2>2
<1>4. ASSUME NEW i \in 1..Len(new), new[i].key \in Paired3
      PROVE  new[i].value = ValueFrom(r, new[i].key)
  <2>1. CASE i \in 1..Len(kept)
    <3>1. new[i] = Rewritten(file[i], r) /\ file[i] \in Lines
      BY <1>1, <1>2, <2>1
    <3> QED
      BY <1>4, <3>1, RewrittenFacts
  <2>2. CASE i \notin 1..Len(kept)
    <3>1. PICK j \in 1..Len(added) : new[i] = added[j]
      BY <1>3, <2>2
    <3>2. added[j].value = ValueFrom(r, added[j].key)
      BY <1>1
    <3> QED
      BY <3>1, <3>2
  <2> QED
    BY <2>1, <2>2
<1>5. ASSUME NEW key \in Paired3 PROVE Lookup(new, key) = ValueFrom(r, key)
  <2>1. PICK i \in 1..Len(new) : new[i].key = key
    <3>1. CASE \E i \in 1..Len(kept) : kept[i].key = key
      BY <1>2, <3>1
    <3>2. CASE \E j \in 1..Len(added) : added[j].key = key
      <4>1. PICK j \in 1..Len(added) : added[j].key = key
        BY <3>2
      <4>2. Len(kept) + j \in 1..Len(new) /\ new[Len(kept) + j].key = key
        BY <1>2, <4>1
      <4> QED
        BY <4>2
    <3> QED
      BY <1>1, <3>1, <3>2
  <2>2. \E j \in 1..Len(new) : new[j].key = key /\ Lookup(new, key) = new[j].value
    BY <1>2, <2>1, LookupIs
  <2> QED
    BY <1>4, <2>2
<1>6. Reading(new) = [name |-> r, host |-> r, strict |-> TRUE]
  <2>1. /\ Lookup(new, "otherhost_name") = r /\ Lookup(new, "host") = r
        /\ Lookup(new, "known_hosts_file") = "path"
    BY <1>5 DEF Paired3, ValueFrom
  <2> QED
    BY <2>1, ConfigAssumption DEF Reading, MachineName, Texts
<1>7. OtherLines(new) = OtherLines(file)
  <2> DEFINE P == {i \in DOMAIN new : new[i].key \notin ToSet(PairedKeys) \cup {"devbox_name"}}
             O == {i \in DOMAIN file : file[i].key \notin ToSet(PairedKeys) \cup {"devbox_name"}}
  <2>1. \A i \in 1..Len(new) : i \in P => i <= Len(kept)
    <3> SUFFICES ASSUME NEW i \in 1..Len(new), i \notin 1..Len(kept) PROVE i \notin P
      BY <1>2
    <3> QED
      BY <1>1, <1>3, PairedKeysAre DEF Paired3
  <2>2. ASSUME NEW i \in 1..Len(kept)
        PROVE  (i \in P <=> i \in O) /\ (i \in P => kept[i] = file[i])
    <3>1. new[i] = Rewritten(file[i], r) /\ kept[i] = new[i] /\ i \in DOMAIN new
      BY <1>1, <1>2
    <3>2. file[i] \in Lines
      BY <1>1
    <3> QED
      BY <1>1, <3>1, <3>2, RewrittenFacts, PairedKeysAre DEF Paired3
  <2> HIDE DEF P, O
  <2>3. Keep(kept, P) = Keep(file, O)
    BY <1>1, <2>2, KeepSame
  <2>4. Keep(new, P) = Keep(kept, P)
    <3>1. /\ new \in Seq(Lines) /\ Len(kept) <= Len(new)
          /\ \A i \in 1..Len(kept) : new[i] = kept[i]
      BY <1>2
    <3> QED
      BY <2>1, <3>1, KeepPrefix
  <2> QED
    BY <2>3, <2>4 DEF OtherLines, P, O
<1> QED
  BY <1>1, <1>2, <1>6, <1>7 DEF new

-----------------------------------------------------------------------------
(* What a migration writes *)

\* The lines of a key.
Hits(file, key) == Keep(file, {i \in DOMAIN file : file[i].key = key})

\* Keeping some lines of a file, and then those of a key.
LEMMA HitsOfKept ==
    ASSUME NEW s \in Seq(Lines), NEW t \in Seq(Lines), Len(s) = Len(t), NEW P, NEW key, NEW Q,
           \A i \in 1..Len(s) : /\ i \in Q <=> i \in P /\ s[i].key = key
                                /\ i \in Q => t[i] = s[i]
    PROVE  Hits(Keep(s, P), key) = Keep(t, Q)
<1> DEFINE W == {line \in Lines : line.key = key}
           kept == Keep(s, P)
<1>1. kept \in Seq(Lines)
  BY KeepType
<1>2. Keep(kept, Where(kept, W)) = Keep(t, Q)
  <2>1. \A i \in 1..Len(s) : /\ i \in Q <=> i \in P /\ s[i] \in W
                             /\ i \in Q => t[i] = s[i]
    OBVIOUS
  <2> HIDE DEF W
  <2> QED
    BY <2>1, KeepKeep
<1> HIDE DEF kept
<1>3. Where(kept, W) = {i \in DOMAIN kept : kept[i].key = key}
  BY <1>1 DEF Where
<1> QED
  BY <1>2, <1>3 DEF Hits, kept

\* A migration changes what no reader reads, and drops no line of the user's.
LEMMA MigratedReads ==
    ASSUME NEW file \in Seq(Lines)
    PROVE  /\ Migrated(file) \in Seq(Lines)
           /\ Reading(Migrated(file)) = Reading(file)
           /\ OtherLines(Migrated(file)) = OtherLines(file)
<1> DEFINE old     == {i \in DOMAIN file : file[i].key = "devbox_name"}
           hasName == \E i \in DOMAIN file : file[i].key = "otherhost_name"
           first   == {i \in old : ~hasName /\ \A j \in old : i <= j}
           renamed == [i \in DOMAIN file |-> IF i \in old THEN Line("otherhost_name", file[i].value)
                                                          ELSE file[i]]
           places  == (DOMAIN file \ old) \cup first
           new     == Keep(renamed, places)
<1>1. new = Migrated(file)
  BY DEF Migrated
<1>2. /\ renamed \in Seq(Lines) /\ Len(renamed) = Len(file) /\ Len(file) \in Nat
      /\ \A i \in 1..Len(file) :
           /\ file[i] \in Lines
           /\ i \in old <=> file[i].key = "devbox_name"
           /\ i \in old => renamed[i].key = "otherhost_name" /\ renamed[i].value = file[i].value
           /\ i \notin old => renamed[i] = file[i]
  <2>1. \A i \in 1..Len(file) : file[i] \in Lines
    OBVIOUS
  <2>2. \A line \in Lines : Line("otherhost_name", line.value) \in Lines
    BY LineFacts DEF Line, Paired3
  <2>3. \A i \in 1..Len(file) : renamed[i] \in Lines
    BY <2>1, <2>2
  <2>4. renamed \in Seq(Lines) /\ Len(renamed) = Len(file)
    <3>1. renamed = [i \in 1..Len(file) |-> renamed[i]]
      OBVIOUS
    <3> HIDE DEF renamed
    <3>2. renamed \in [1..Len(file) -> Lines]
      BY <2>3, <3>1
    <3> QED
      BY <3>2
  <2> QED
    BY <2>1, <2>4 DEF Line
<1>3. /\ old \subseteq 1..Len(file) /\ first \subseteq old
      /\ \A i \in 1..Len(file) : i \in places <=> i \notin old \/ i \in first
      /\ hasName => first = {}
      /\ hasName <=> \E i \in 1..Len(file) : file[i].key = "otherhost_name"
  <2>1. DOMAIN file = 1..Len(file)
    OBVIOUS
  <2> QED
    BY <2>1
<1>4. new \in Seq(Lines)
  BY <1>2, KeepType
<1>5. ASSUME old # {}
      PROVE  \E i \in old : /\ \A j \in old : i <= j
                            /\ Lookup(file, "devbox_name") = file[i].value
  <2>1. Keep(file, old) # <<>>
    BY <1>3, <1>5, KeepEmpty
  <2>2. PICK i \in 1..Len(file) : /\ i \in old /\ \A j \in 1..(i - 1) : j \notin old
                                  /\ Keep(file, old)[1] = file[i]
    BY <2>1, KeepFirst
  <2>3. Lookup(file, "devbox_name") = file[i].value
    BY <2>1, <2>2 DEF Lookup
  <2>4. \A j \in old : i <= j
    BY <1>3, <2>2
  <2> QED
    BY <2>2, <2>3, <2>4
<1> HIDE DEF old, hasName, first, renamed, places, new
<1>6. ASSUME NEW key \in {"host", "known_hosts_file"} PROVE Lookup(new, key) = Lookup(file, key)
  <2> DEFINE Q == {i \in DOMAIN file : file[i].key = key}
  <2>1. \A i \in 1..Len(renamed) : /\ i \in Q <=> i \in places /\ renamed[i].key = key
                                   /\ i \in Q => file[i] = renamed[i]
    BY <1>2, <1>3
  <2> HIDE DEF Q
  <2>2. Hits(new, key) = Keep(file, Q)
    BY <1>2, <2>1, HitsOfKept DEF new
  <2> QED
    BY <2>2 DEF Q, Lookup, Hits
<1>7. MachineName(new) = MachineName(file)
  <2>1. CASE hasName \/ old = {}
    <3> DEFINE Q == {i \in DOMAIN file : file[i].key = "otherhost_name"}
               D == {i \in DOMAIN file : file[i].key = "devbox_name" /\ i \notin old}
    <3>1. \A i \in 1..Len(renamed) : /\ i \in Q <=> i \in places /\ renamed[i].key = "otherhost_name"
                                     /\ i \in Q => file[i] = renamed[i]
      BY <1>2, <1>3, <2>1
    <3>2. Hits(new, "otherhost_name") = Keep(file, Q)
      <4> HIDE DEF Q
      <4> QED
        BY <1>2, <3>1, HitsOfKept DEF new
    <3>3. Lookup(new, "otherhost_name") = Lookup(file, "otherhost_name")
      BY <3>2 DEF Lookup, Hits
    <3>4. CASE hasName
      <4>1. Lookup(file, "otherhost_name") # Absent
        BY <1>3, <3>4, LookupIs
      <4> QED
        BY <3>3, <4>1 DEF MachineName
    <3>5. CASE old = {}
      <4>1. \A i \in 1..Len(renamed) : /\ i \in old <=> i \in places /\ renamed[i].key = "devbox_name"
                                       /\ i \in old => file[i] = renamed[i]
        BY <1>2, <1>3, <3>5
      <4>2. Hits(new, "devbox_name") = Keep(file, old)
        BY <1>2, <4>1, HitsOfKept DEF new
      <4>3. Lookup(new, "devbox_name") = Lookup(file, "devbox_name")
        BY <4>2 DEF Lookup, Hits, old
      <4> QED
        BY <3>3, <4>3 DEF MachineName
    <3> QED
      BY <2>1, <3>4, <3>5
  <2>2. CASE ~hasName /\ old # {}
    <3>1. PICK i \in old : /\ \A j \in old : i <= j
                           /\ Lookup(file, "devbox_name") = file[i].value
      BY <1>5, <2>2
    <3>2. first = {i}
      <4>1. i \in first
        BY <2>2, <3>1 DEF first
      <4>2. ASSUME NEW j \in first PROVE j = i
        <5>1. j \in old /\ j <= i /\ i <= j /\ i \in Nat /\ j \in Nat
          BY <1>3, <3>1, <4>2 DEF first
        <5> QED
          BY <5>1
      <4> QED
        BY <4>1, <4>2
    <3>3. \A j \in 1..Len(renamed) : /\ j \in first <=> j \in places /\ renamed[j].key = "otherhost_name"
                                     /\ j \in first => renamed[j] = renamed[j]
      BY <1>2, <1>3, <2>2
    <3>4. Hits(new, "otherhost_name") = Keep(renamed, first)
      BY <1>2, <3>3, HitsOfKept DEF new
    <3>5. Keep(renamed, first) # <<>>
      BY <1>2, <1>3, <3>2, KeepEmpty
    <3>6. Keep(renamed, first)[1] = renamed[i]
      BY <1>2, <3>2, <3>5, KeepFirst
    <3>7. Lookup(new, "otherhost_name") = file[i].value
      BY <1>2, <1>3, <3>4, <3>5, <3>6 DEF Lookup, Hits
    <3>8. Lookup(file, "otherhost_name") = Absent
      BY <1>3, <2>2, LookupIs
    <3>9. file[i].value # Absent
      BY <1>2, <1>3, ConfigAssumption DEF Lines
    <3> QED
      BY <3>1, <3>7, <3>8, <3>9 DEF MachineName
  <2> QED
    BY <2>1, <2>2
<1>8. Reading(new) = Reading(file)
  BY <1>6, <1>7 DEF Reading
<1>9. OtherLines(new) = OtherLines(file)
  <2> DEFINE W == {line \in Lines : line.key \notin Paired3 \cup {"devbox_name"}}
             Q == {i \in DOMAIN file : file[i].key \notin ToSet(PairedKeys) \cup {"devbox_name"}}
  <2>1. \A i \in 1..Len(renamed) : /\ i \in Q <=> i \in places /\ renamed[i] \in W
                                   /\ i \in Q => file[i] = renamed[i]
    <3>1. \A i \in 1..Len(renamed) :
            renamed[i] \in W <=> renamed[i].key \notin Paired3 \cup {"devbox_name"}
      BY <1>2
    <3> QED
      BY <1>2, <1>3, <3>1, PairedKeysAre DEF Paired3
  <2> HIDE DEF Q, W
  <2>2. Keep(new, Where(new, W)) = Keep(file, Q)
    BY <1>2, <2>1, KeepKeep DEF new
  <2>3. Where(new, W) = {i \in DOMAIN new : new[i].key \notin ToSet(PairedKeys) \cup {"devbox_name"}}
    BY <1>4, PairedKeysAre DEF Where, W, Paired3
  <2> QED
    BY <2>2, <2>3 DEF OtherLines, Q
<1> QED
  BY <1>1, <1>4, <1>8, <1>9

-----------------------------------------------------------------------------
(* The files of the user *)

\* A machine's host comes with its name and its pin.
Whole(file) ==
    Lookup(file, "host") \in Runs =>
        Reading(file) = [name |-> Lookup(file, "host"), host |-> Lookup(file, "host"),
                         strict |-> TRUE]

\* What pairings and migrations write is whole, if what they read is.
LEMMA WrittenIsWhole ==
    ASSUME NEW file \in Seq(Lines)
    PROVE  /\ \A r \in Runs : Whole(Update(file, r))
           /\ Whole(file) => Whole(Migrated(file))
<1>1. \A r \in Runs : Whole(Update(file, r))
  BY UpdateReads DEF Whole, Reading
<1>2. Whole(file) => Whole(Migrated(file))
  BY MigratedReads DEF Whole, Reading
<1> QED
  BY <1>1, <1>2

\* A file no pairing has written names no run's host.
LEMMA ForeignIsWhole ==
    ASSUME NEW file \in Seq(Lines), \A i \in 1..Len(file) : file[i].key = "host" => file[i].value \notin Runs
    PROVE  Whole(file) /\ Lookup(file, "host") \notin Runs
<1>1. \/ Lookup(file, "host") = Absent
      \/ \E i \in 1..Len(file) : file[i].key = "host" /\ Lookup(file, "host") = file[i].value
  BY LookupIs
<1> QED
  BY <1>1, ConfigAssumption DEF Whole

\* A line is what it is made of.
LEMMA LineIs ==
    ASSUME NEW key \in Paired3 \cup {"devbox_name", "ports"}, NEW value \in Runs \cup Texts
    PROVE  Line(key, value) \in Lines /\ Line(key, value).key = key /\ Line(key, value).value = value
BY LineFacts DEF Line

\* The example file names no machine that was paired.
LEMMA ExampleFacts ==
    Example \in Seq(Lines) /\ Whole(Example) /\ Lookup(Example, "host") \notin Runs
<1>1. /\ Len(Example) = 4
      /\ Example[1] = Line("otherhost_name", "example") /\ Example[2] = Line("host", "CHANGE_ME")
      /\ Example[3] = Line("known_hosts_file", "path") /\ Example[4] = Line("ports", "example")
      /\ Example = [i \in 1..4 |-> Example[i]]
  BY DEF Example
<1>2. /\ Example[1] \in Lines /\ Example[1].key # "host"
      /\ Example[2] \in Lines /\ Example[2].value = "CHANGE_ME"
      /\ Example[3] \in Lines /\ Example[3].key # "host"
      /\ Example[4] \in Lines /\ Example[4].key # "host"
  <2>1. /\ {"example", "CHANGE_ME", "path"} \subseteq Runs \cup Texts
        /\ {"otherhost_name", "host", "known_hosts_file"} \subseteq Paired3
    BY DEF Texts, Paired3
  <2> QED
    BY <1>1, <2>1, LineIs
<1>3. Example \in Seq(Lines)
  <2> HIDE DEF Example
  <2>1. Example \in [1..4 -> Lines]
    BY <1>1, <1>2
  <2> QED
    BY <2>1
<1>4. \A i \in 1..Len(Example) : Example[i].key = "host" => Example[i].value \notin Runs
  <2>1. "CHANGE_ME" \notin Runs
    BY ConfigAssumption DEF Texts
  <2> HIDE DEF Example
  <2> QED
    BY <1>1, <1>2, <2>1
<1> QED
  BY <1>3, <1>4, ForeignIsWhole

\* Nor does any file of the user's at first.
LEMMA UserFileFacts ==
    ASSUME NEW file \in BoundedSeq(UserLines, MaxLines)
    PROVE  file \in Seq(Lines) /\ Whole(file) /\ Lookup(file, "host") \notin Runs
<1>1. PICK m \in 0..MaxLines : file \in [1..m -> UserLines]
  BY ConfigAssumption DEF BoundedSeq, SeqOf
<1>2. m \in Nat
  BY ConfigAssumption
<1>3. ASSUME NEW line \in UserLines
      PROVE  line \in Lines /\ (line.key = "host" => line.value = "old")
  <2>1. /\ {"new name", "old name", "old", "path"} \subseteq Runs \cup Texts
        /\ {"otherhost_name", "host", "known_hosts_file"} \subseteq Paired3
    BY DEF Texts, Paired3
  <2>2. CASE line # Line("host", "old")
    <3>1. /\ Line("otherhost_name", "new name") \in Lines
          /\ Line("otherhost_name", "new name").key # "host"
      BY <2>1, LineIs
    <3>2. Line("devbox_name", "old name") \in Lines /\ Line("devbox_name", "old name").key # "host"
      BY <2>1, LineIs
    <3>3. Line("known_hosts_file", "path") \in Lines /\ Line("known_hosts_file", "path").key # "host"
      BY <2>1, LineIs
    <3>4. Line("ports", "old") \in Lines /\ Line("ports", "old").key # "host"
      BY <2>1, LineIs
    <3> QED
      BY <1>3, <2>2, <3>1, <3>2, <3>3, <3>4 DEF UserLines
  <2>3. CASE line = Line("host", "old")
    BY <2>1, <2>3, LineIs
  <2> QED
    BY <1>3, <2>2, <2>3 DEF UserLines
<1>4. \A i \in 1..m : file[i] \in Lines /\ (file[i].key = "host" => file[i].value = "old")
  BY <1>1, <1>3
<1>5. file \in Seq(Lines) /\ Len(file) = m
  <2>1. file \in [1..m -> Lines]
    BY <1>1, <1>3
  <2> QED
    BY <1>2, <2>1
<1>6. "old" \notin Runs
  BY ConfigAssumption DEF Texts
<1> QED
  BY <1>4, <1>5, <1>6, ForeignIsWhole

\* The user's edit of a port changes no reading.
LEMMA EditReads ==
    ASSUME NEW file \in Seq(Lines), NEW i \in DOMAIN file, file[i].key = "ports"
    PROVE  /\ [file EXCEPT ![i].value = "new"] \in Seq(Lines)
           /\ Reading([file EXCEPT ![i].value = "new"]) = Reading(file)
           /\ Whole(file) => Whole([file EXCEPT ![i].value = "new"])
<1> DEFINE line == [file[i] EXCEPT !.value = "new"]
           new == [file EXCEPT ![i] = line]
<1>1. i \in 1..Len(file) /\ file[i] \in Lines
  OBVIOUS
<1>2. line \in Lines /\ line.key = "ports"
  <2>1. ASSUME NEW any \in Lines
        PROVE  [any EXCEPT !.value = "new"] \in Lines /\ [any EXCEPT !.value = "new"].key = any.key
    <3>1. "new" \in Runs \cup Texts
      BY DEF Texts
    <3> QED
      BY <3>1, LineFacts
  <2> QED
    BY <1>1, <2>1
<1>3. new = [file EXCEPT ![i].value = "new"]
  OBVIOUS
<1> HIDE DEF line
<1>4. /\ new \in Seq(Lines) /\ Len(new) = Len(file)
      /\ \A j \in 1..Len(file) : file[j] = new[j] \/ (file[j].key = "ports" /\ new[j].key = "ports")
  BY <1>1, <1>2
<1> HIDE DEF new
<1>5. ASSUME NEW key, key # "ports" PROVE Lookup(new, key) = Lookup(file, key)
  <2>1. \A j \in 1..Len(file) : \/ file[j] = new[j]
                                \/ file[j].key # key /\ new[j].key # key
    BY <1>4, <1>5
  <2> QED
    BY <1>4, <2>1, LookupSame
<1>6. Reading(new) = Reading(file)
  BY <1>5 DEF Reading, MachineName
<1>7. Lookup(new, "host") = Lookup(file, "host")
  BY <1>5
<1> QED
  BY <1>3, <1>4, <1>6, <1>7 DEF Whole

\* The user's own lines of a file are lines.
LEMMA OtherLinesType ==
    ASSUME NEW file \in Seq(Lines) PROVE OtherLines(file) \in Seq(Lines)
BY KeepType DEF OtherLines

-----------------------------------------------------------------------------
(* The states of a run and of a migration *)

Files == {"conf", "legacy"}
Pins == Runs \cup {"old"}

\* The states that the actions give a run.
LEMMA RunStatesHold ==
    /\ Waiting \in RunStates /\ Waiting.at = "waiting"
    /\ \A end \in Ended : [at |-> end] \in RunStates
    /\ \A file \in Files, pin \in Pins :
         /\ [at |-> "pairing", file |-> file, pinBefore |-> pin] \in RunStates
         /\ \A output \in Seq(Lines) :
              [at |-> "saving", file |-> file, pinBefore |-> pin, output |-> output] \in RunStates
<1>1. Waiting \in RunStates /\ Waiting.at = "waiting"
  BY DEF RunStates, Waiting
<1>2. ASSUME NEW end \in Ended PROVE [at |-> end] \in RunStates
  BY <1>2 DEF RunStates
<1>3. ASSUME NEW file \in Files, NEW pin \in Pins
      PROVE  [at |-> "pairing", file |-> file, pinBefore |-> pin] \in RunStates
  BY <1>3 DEF RunStates, Memory, Files, Pins
<1>4. ASSUME NEW file \in Files, NEW pin \in Pins, NEW output \in Seq(Lines)
      PROVE  [at |-> "saving", file |-> file, pinBefore |-> pin, output |-> output] \in RunStates
  BY <1>4 DEF RunStates, Files, Pins
<1> QED
  BY <1>1, <1>2, <1>3, <1>4

\* What an active run holds in memory.
LEMMA RunStateIs ==
    ASSUME NEW state \in RunStates
    PROVE  /\ state.at \in Ended \cup {"waiting", "pairing", "pinning", "reading", "saving"}
           /\ state.at \notin Ended \cup {"waiting"} => state.file \in Files /\ state.pinBefore \in Pins
           /\ state.at = "saving" => state.output \in Seq(Lines)
           /\ \A at \in {"pinning", "reading"} :
                state.at \in {"pairing", "pinning"} =>
                  /\ [state EXCEPT !.at = at] \in RunStates
                  /\ [state EXCEPT !.at = at].at = at
                  /\ [state EXCEPT !.at = at].file = state.file
<1>1. CASE state = Waiting
  BY <1>1 DEF Waiting, Ended
<1>2. CASE state \in [at : Ended]
  BY <1>2 DEF Ended
<1>3. CASE state \in Memory
  <2>1. /\ state.at \in {"pairing", "pinning", "reading"}
        /\ state.file \in Files /\ state.pinBefore \in Pins
    BY <1>3 DEF Memory, Files, Pins
  <2>2. ASSUME NEW at \in {"pinning", "reading"}
        PROVE  /\ [state EXCEPT !.at = at] \in Memory
               /\ [state EXCEPT !.at = at].at = at
               /\ [state EXCEPT !.at = at].file = state.file
    BY <1>3, <2>2 DEF Memory
  <2>3. Memory \subseteq RunStates
    BY DEF RunStates
  <2> QED
    BY <2>1, <2>2, <2>3 DEF Ended
<1>4. CASE state \in [at : {"saving"}, file : Files, pinBefore : Pins, output : Seq(Lines)]
  BY <1>4 DEF Ended
<1> QED
  BY <1>1, <1>2, <1>3, <1>4 DEF RunStates, Files, Pins

\* The states of a migration, and what the one that writes holds.
LEMMA MigrationStatesHold ==
    /\ Waiting \in MigrationStates
    /\ [at |-> "done"] \in MigrationStates /\ [at |-> "failed"] \in MigrationStates
    /\ \A output \in Seq(Lines) : [at |-> "writing", output |-> output] \in MigrationStates
    /\ \A state \in MigrationStates : state.at = "writing" => state.output \in Seq(Lines)
BY DEF MigrationStates, Waiting

-----------------------------------------------------------------------------
(* Type correctness *)

\* Every file that exists is one of lines; if none is read, none exists.
LEMMA FileFacts ==
    ASSUME TypeOK
    PROVE  /\ Chosen \in Files /\ (IsFile(InUse) => InUse \in Seq(Lines))
           /\ \A which \in Files : IsFile(Content(which)) => Content(which) \in Seq(Lines)
           /\ ~ IsFile(InUse) => conf = Absent /\ legacy = Absent
BY DEF TypeOK, Chosen, Files, InUse, Content, IsFile

\* Who replaces the file that is read is read next.
LEMMA ReplacedIsRead ==
    ASSUME NEW file \in Seq(Lines), Replace(Chosen, file)
    PROVE  Chosen' = Chosen /\ InUse' = file /\ IsFile(InUse')
BY ConfigAssumption DEF Replace, Chosen, InUse, Content, IsFile

\* The states a Mac may start in are well typed.
LEMMA TypeInit == Init => TypeOK
<1> SUFFICES ASSUME Init PROVE TypeOK
  OBVIOUS
<1>1. PICK file \in BoundedSeq(UserLines, MaxLines) \cup {Absent} :
        /\ \/ conf = file /\ legacy = Absent
           \/ conf = Absent /\ legacy = file
        /\ edited = IF IsFile(file) THEN OtherLines(file) ELSE <<>>
  BY DEF Init
<1>2. IsFile(file) => file \in Seq(Lines) /\ OtherLines(file) \in Seq(Lines)
  BY UserFileFacts, OtherLinesType DEF IsFile
<1>3. <<>> \in Seq(Lines)
  OBVIOUS
<1>4. edited \in Seq(Lines)
  BY <1>1, <1>2, <1>3, Zenon
<1>5. (IsFile(conf) => conf \in Seq(Lines)) /\ (IsFile(legacy) => legacy \in Seq(Lines))
  BY <1>1, <1>2 DEF IsFile
<1>6. run \in [Runs -> RunStates] /\ migration \in MigrationStates
  BY RunStatesHold, MigrationStatesHold DEF Init
<1> QED
  BY <1>4, <1>5, <1>6 DEF Init, TypeOK

\* A step of a run keeps every type.
LEMMA PairKeepsType ==
    ASSUME TypeOK, NEW r \in Runs, Pair(r) PROVE TypeOK'
<1>1. /\ run \in [Runs -> RunStates] /\ run[r] \in RunStates
      /\ r \in Pins /\ pinned \in Pins /\ "crashed" \in Ended /\ "failed" \in Ended /\ "saved" \in Ended
  BY DEF TypeOK, Pins, Ended
<1>2. CASE StartPair(r)
  <2>1. run' \in [Runs -> RunStates]
    <3>1. [at |-> "pairing", file |-> Chosen, pinBefore |-> pinned] \in RunStates
      BY <1>1, FileFacts, RunStatesHold
    <3> QED
      BY <1>1, <1>2, <3>1 DEF StartPair
  <2>2. /\ IsFile(conf') => conf' \in Seq(Lines)
        /\ IsFile(legacy') => legacy' \in Seq(Lines)
        /\ edited' \in Seq(Lines)
    <3>1. Example \in Seq(Lines) /\ OtherLines(Example) \in Seq(Lines)
      BY ExampleFacts, OtherLinesType
    <3> QED
      BY <1>2, <3>1 DEF StartPair, TypeOK, IsFile
  <2>3. overlap' \in BOOLEAN
    BY <1>2 DEF StartPair, TypeOK, Busy
  <2> QED
    BY <1>2, <2>1, <2>2, <2>3 DEF StartPair, TypeOK
<1>3. CASE Paired(r) \/ Pin(r)
  <2>1. run' \in [Runs -> RunStates]
    <3>1. \A at \in {"pinning", "reading"} :
            run[r].at \in {"pairing", "pinning"} => [run[r] EXCEPT !.at = at] \in RunStates
      BY <1>1, RunStateIs
    <3>2. CASE Paired(r)
      <4>1. [run[r] EXCEPT !.at = "pinning"] \in RunStates
        BY <3>1, <3>2 DEF Paired
      <4> QED
        BY <1>1, <3>2, <4>1 DEF Paired
    <3>3. CASE Pin(r)
      <4>1. [run[r] EXCEPT !.at = "reading"] \in RunStates
        BY <3>1, <3>3 DEF Pin
      <4> QED
        BY <1>1, <3>3, <4>1 DEF Pin
    <3> QED
      BY <1>3, <3>2, <3>3
  <2> QED
    BY <1>1, <1>3, <2>1 DEF Paired, Pin, TypeOK, IsFile, Pins
<1>4. CASE ReadConfig(r)
  <2> DEFINE file == Content(run[r].file)
             before == IF IsFile(file) THEN file ELSE <<>>
  <2>1. run[r].file \in Files /\ run[r].pinBefore \in Pins
    BY <1>1, <1>4, RunStateIs DEF ReadConfig, Ended
  <2>2. before \in Seq(Lines)
    <3>1. <<>> \in Seq(Lines)
      OBVIOUS
    <3>2. IsFile(file) => file \in Seq(Lines)
      BY <2>1, FileFacts
    <3> QED
      BY <3>1, <3>2, Zenon
  <2>3. Update(before, r) \in Seq(Lines)
    <3> HIDE DEF before
    <3> QED
      BY <2>2, UpdateReads
  <2>4. run' \in [Runs -> RunStates]
    <3>1. [at |-> "saving", file |-> run[r].file, pinBefore |-> run[r].pinBefore,
           output |-> Update(before, r)] \in RunStates
      <4> HIDE DEF before
      <4> QED
        BY <2>1, <2>3, RunStatesHold
    <3> QED
      BY <1>1, <1>4, <3>1 DEF ReadConfig
  <2> QED
    BY <1>4, <2>4 DEF ReadConfig, TypeOK
<1>5. CASE SaveConfig(r)
  <2>1. run[r].file \in Files /\ run[r].output \in Seq(Lines)
    BY <1>1, <1>5, RunStateIs DEF SaveConfig, Ended
  <2>2. run' \in [Runs -> RunStates]
    BY <1>1, <1>5, RunStatesHold DEF SaveConfig
  <2>3. (IsFile(conf') => conf' \in Seq(Lines)) /\ (IsFile(legacy') => legacy' \in Seq(Lines))
    BY <1>5, <2>1 DEF SaveConfig, Replace, TypeOK, IsFile
  <2> QED
    BY <1>5, <2>2, <2>3 DEF SaveConfig, TypeOK
<1>6. CASE FailPair(r) \/ CrashPair(r)
  <2>1. run' \in [Runs -> RunStates]
    BY <1>1, <1>6, RunStatesHold DEF FailPair, CrashPair
  <2> QED
    BY <1>6, <2>1 DEF FailPair, CrashPair, TypeOK
<1> QED
  BY <1>2, <1>3, <1>4, <1>5, <1>6 DEF Pair

\* A port is changed in the file that is read.
LEMMA EditIs ==
    ASSUME TypeOK, Edit
    PROVE  /\ IsFile(InUse) /\ InUse \in Seq(Lines)
           /\ \E file \in Seq(Lines) :
                /\ Replace(Chosen, file) /\ edited' = OtherLines(file)
                /\ Reading(file) = Reading(InUse)
                /\ Whole(InUse) => Whole(file)
<1>1. IsFile(InUse) /\ InUse \in Seq(Lines)
  BY FileFacts DEF Edit, InUse
<1>2. PICK i \in DOMAIN InUse :
        /\ InUse[i].key = "ports"
        /\ Replace(Chosen, [InUse EXCEPT ![i].value = "new"])
        /\ edited' = OtherLines([InUse EXCEPT ![i].value = "new"])
  BY DEF Edit, InUse
<1> DEFINE file == [InUse EXCEPT ![i].value = "new"]
<1>3. /\ file \in Seq(Lines) /\ Reading(file) = Reading(InUse)
      /\ Whole(InUse) => Whole(file)
  BY <1>1, <1>2, EditReads
<1>4. Replace(Chosen, file) /\ edited' = OtherLines(file)
  BY <1>2
<1> HIDE DEF file
<1> QED
  BY <1>1, <1>3, <1>4

\* So does a step of the migration or of the user.
LEMMA MigrationKeepsType ==
    ASSUME TypeOK, BeginMigration \/ EndMigration \/ FailMigration \/ Edit PROVE TypeOK'
<1>1. CASE BeginMigration
  <2>1. Migrated(legacy) \in Seq(Lines)
    BY <1>1, MigratedReads DEF BeginMigration, TypeOK
  <2>2. migration' \in MigrationStates
    BY <1>1, <2>1, MigrationStatesHold DEF BeginMigration
  <2>3. overlap' \in BOOLEAN
    BY <1>1 DEF BeginMigration, TypeOK, Busy
  <2> QED
    BY <1>1, <2>2, <2>3 DEF BeginMigration, TypeOK
<1>2. CASE EndMigration
  BY <1>2, MigrationStatesHold DEF EndMigration, TypeOK
<1>3. CASE FailMigration
  BY <1>3, MigrationStatesHold DEF FailMigration, TypeOK
<1>4. CASE Edit
  <2>1. PICK file \in Seq(Lines) : Replace(Chosen, file) /\ edited' = OtherLines(file)
    BY <1>4, EditIs
  <2>2. OtherLines(file) \in Seq(Lines)
    BY OtherLinesType
  <2>3. (IsFile(conf') => conf' \in Seq(Lines)) /\ (IsFile(legacy') => legacy' \in Seq(Lines))
    BY <2>1 DEF Replace, TypeOK, IsFile
  <2>4. overlap' \in BOOLEAN
    BY <1>4 DEF Edit, TypeOK, Busy
  <2> QED
    BY <1>4, <2>1, <2>2, <2>3, <2>4 DEF Edit, TypeOK
<1> QED
  BY <1>1, <1>2, <1>3, <1>4

\* A run is always at one of its steps, holding what that step needs, and every file is
\* absent or a file of lines.
THEOREM TypeCorrect == Spec => []TypeOK
<1>1. TypeOK /\ UNCHANGED vars => TypeOK'
  BY DEF TypeOK, vars, IsFile
<1>2. TypeOK /\ [Next]_vars => TypeOK'
  BY <1>1, PairKeepsType, MigrationKeepsType DEF Next
<1> QED
  BY <1>2, TypeInit, PTL DEF Spec

-----------------------------------------------------------------------------
(* One machine, even when runs overlap, fail or die *)

\* Every file, and every file that is about to be written, is whole.
AllWhole ==
    /\ IsFile(conf) => Whole(conf)
    /\ IsFile(legacy) => Whole(legacy)
    /\ \A r \in Runs : run[r].at = "saving" => Whole(run[r].output)
    /\ migration.at = "writing" => Whole(migration.output)

\* No file names a pairing's host at first.
LEMMA WholeInit == Init => AllWhole
<1> SUFFICES ASSUME Init PROVE AllWhole
  OBVIOUS
<1>1. PICK file \in BoundedSeq(UserLines, MaxLines) \cup {Absent} :
        \/ conf = file /\ legacy = Absent
        \/ conf = Absent /\ legacy = file
  BY DEF Init
<1>2. IsFile(file) => Whole(file)
  BY UserFileFacts DEF IsFile
<1> QED
  BY <1>1, <1>2 DEF Init, AllWhole, IsFile, Waiting

\* A run writes a whole file, whatever it read and whatever was done to the file since.
LEMMA PairKeepsWhole ==
    ASSUME TypeOK, AllWhole, NEW r \in Runs, Pair(r) PROVE AllWhole'
<1>1. run \in [Runs -> RunStates] /\ run[r] \in RunStates
  BY DEF TypeOK
<1>2. CASE StartPair(r)
  <2>1. \A s \in Runs : run'[s].at = "saving" => run[s].at = "saving" /\ run'[s] = run[s]
    BY <1>1, <1>2 DEF StartPair
  <2>2. (IsFile(conf') => Whole(conf)') /\ (IsFile(legacy') => Whole(legacy)')
    BY <1>2, ExampleFacts DEF StartPair, AllWhole, IsFile
  <2> QED
    BY <1>2, <2>1, <2>2 DEF StartPair, AllWhole
<1>3. CASE Paired(r) \/ Pin(r)
  <2>1. \A at \in {"pinning", "reading"} :
          run[r].at \in {"pairing", "pinning"} => [run[r] EXCEPT !.at = at].at = at
    BY <1>1, RunStateIs
  <2>2. run'[r].at \in {"pinning", "reading"} /\ \A s \in Runs : s # r => run'[s] = run[s]
    BY <1>1, <1>3, <2>1 DEF Paired, Pin
  <2> QED
    BY <1>3, <2>2 DEF Paired, Pin, AllWhole, IsFile
<1>4. CASE ReadConfig(r)
  <2> DEFINE file == Content(run[r].file)
             before == IF IsFile(file) THEN file ELSE <<>>
  <2>1. run[r].file \in Files
    BY <1>1, <1>4, RunStateIs DEF ReadConfig, Ended
  <2>2. before \in Seq(Lines)
    <3>1. <<>> \in Seq(Lines)
      OBVIOUS
    <3>2. IsFile(file) => file \in Seq(Lines)
      BY <2>1, FileFacts
    <3> QED
      BY <3>1, <3>2, Zenon
  <2>3. Whole(Update(before, r))
    <3> HIDE DEF before
    <3> QED
      BY <2>2, WrittenIsWhole
  <2>4. run'[r].output = Update(before, r) /\ \A s \in Runs : s # r => run'[s] = run[s]
    BY <1>1, <1>4 DEF ReadConfig
  <2> HIDE DEF before
  <2> QED
    BY <1>4, <2>3, <2>4 DEF ReadConfig, AllWhole
<1>5. CASE SaveConfig(r)
  <2>1. run[r].file \in Files /\ Whole(run[r].output)
    BY <1>1, <1>5, RunStateIs DEF SaveConfig, Ended, AllWhole
  <2>2. \A s \in Runs : run'[s].at = "saving" => run[s].at = "saving" /\ run'[s] = run[s]
    BY <1>1, <1>5 DEF SaveConfig
  <2> QED
    BY <1>5, <2>1, <2>2 DEF SaveConfig, Replace, AllWhole, IsFile, Files
<1>6. CASE FailPair(r) \/ CrashPair(r)
  <2>1. \A s \in Runs : run'[s].at = "saving" => run[s].at = "saving" /\ run'[s] = run[s]
    BY <1>1, <1>6 DEF FailPair, CrashPair
  <2> QED
    BY <1>6, <2>1 DEF FailPair, CrashPair, AllWhole
<1> QED
  BY <1>2, <1>3, <1>4, <1>5, <1>6 DEF Pair

\* The migration and the user rewrite a whole file into a whole one.
LEMMA MigrationKeepsWhole ==
    ASSUME TypeOK, AllWhole, BeginMigration \/ EndMigration \/ FailMigration \/ Edit
    PROVE  AllWhole'
<1>1. CASE BeginMigration
  <2>1. Whole(Migrated(legacy))
    BY <1>1, WrittenIsWhole DEF BeginMigration, TypeOK, AllWhole
  <2> QED
    BY <1>1, <2>1 DEF BeginMigration, AllWhole
<1>2. CASE EndMigration
  BY <1>2 DEF EndMigration, AllWhole
<1>3. CASE FailMigration
  BY <1>3 DEF FailMigration, AllWhole
<1>4. CASE Edit
  <2>1. PICK file \in Seq(Lines) : Replace(Chosen, file) /\ (Whole(InUse) => Whole(file))
    BY <1>4, EditIs
  <2>2. IsFile(InUse) => Whole(InUse)
    BY DEF AllWhole, InUse, Content, Chosen
  <2>3. Whole(file)
    BY <1>4, <2>1, <2>2, EditIs
  <2> QED
    BY <1>4, <2>1, <2>3 DEF Edit, AllWhole, Replace
<1> QED
  BY <1>1, <1>2, <1>3, <1>4

\* Every file is whole in every reachable state.
LEMMA WholeInvariant == Spec => [](TypeOK /\ AllWhole)
<1>1. TypeOK /\ AllWhole /\ UNCHANGED vars => AllWhole'
  BY DEF AllWhole, vars, IsFile
<1>2. TypeOK /\ AllWhole /\ [Next]_vars => AllWhole'
  BY <1>1, PairKeepsWhole, MigrationKeepsWhole DEF Next
<1> QED
  BY <1>2, WholeInit, TypeCorrect, PTL DEF Spec

\* Whatever runs overlap, fail or die, a file that names a pairing's host also has that
\* pairing's name, and asks for strict checking (against whatever key is then pinned).
THEOREM OneMachineTheorem == Spec => []OneMachine
<1>1. AllWhole => OneMachine
  BY DEF AllWhole, OneMachine, Whole, InUse, Content, Chosen
<1> QED
  BY <1>1, WholeInvariant, PTL

-----------------------------------------------------------------------------
(* What holds as long as no two programs were at work at once *)

\* Every reader finds r's machine, with strict checking against its pin.
Settled(r) == /\ IsFile(InUse) /\ pinned = r
              /\ Reading(InUse) = [name |-> r, host |-> r, strict |-> TRUE]

\* One program is at work, on the file that is read; it last wrote what its step says,
\* and what it is about to write comes from what is there.
Quiet ==
    /\ \A r, s \in Runs : Active(r) /\ Active(s) => r = s
    /\ migration.at = "writing" =>
         /\ \A r \in Runs : ~Active(r)
         /\ conf = Absent /\ IsFile(legacy) /\ migration.output = Migrated(legacy)
    /\ \A r \in Runs :
         /\ Active(r) => run[r].file = Chosen /\ IsFile(InUse)
         /\ run[r].at = "saving" => run[r].output = Update(InUse, r)
         /\ run[r].at \in {"reading", "saving"} => pinned = r /\ last = r
         /\ run[r].at = "saved" /\ last = r => Settled(r)
    /\ IsFile(InUse) => OtherLines(InUse) = edited

\* At first nothing is at work.
LEMMA QuietInit == Init => Quiet
<1> SUFFICES ASSUME Init PROVE Quiet
  OBVIOUS
<1>1. \A r \in Runs : run[r] = Waiting /\ run[r].at = "waiting" /\ ~Active(r)
  BY DEF Init, Active, Waiting
<1>2. IsFile(InUse) => OtherLines(InUse) = edited
  BY DEF Init, InUse, Content, Chosen, IsFile
<1>3. migration.at # "writing"
  BY DEF Init, Waiting
<1> QED
  BY <1>1, <1>2, <1>3 DEF Quiet

\* A run that starts while nothing is at work.
LEMMA StartKeepsQuiet ==
    ASSUME TypeOK, Quiet, NEW r \in Runs, StartPair(r), ~Busy PROVE Quiet'
<1>1. /\ run \in [Runs -> RunStates]
      /\ run'[r] = [at |-> "pairing", file |-> Chosen, pinBefore |-> pinned]
      /\ \A s \in Runs : s # r => run'[s] = run[s] /\ Active(s)' = Active(s)
  BY DEF TypeOK, StartPair, Active
<1>2. \A s \in Runs : ~Active(s)
  BY DEF Busy
<1>3. migration'.at # "writing"
  BY DEF Busy, StartPair
<1>4. Chosen' = Chosen /\ IsFile(InUse') /\ OtherLines(InUse') = edited'
  <2>1. CASE IsFile(InUse)
    BY <2>1 DEF InUse, StartPair, Content, Chosen, Quiet
  <2>2. CASE ~ IsFile(InUse)
    <3>1. Chosen = "conf" /\ conf' = Example /\ edited' = OtherLines(Example)
      BY <2>2, FileFacts DEF StartPair, InUse, Chosen, IsFile
    <3>2. IsFile(Example)
      BY ExampleFacts, ConfigAssumption DEF IsFile
    <3> QED
      BY <3>1, <3>2 DEF Chosen, InUse, Content, IsFile
  <2> QED
    BY <2>1, <2>2
<1>5. \A s \in Runs : run[s].at = "saved" /\ last = s => Settled(s)'
  <2>1. \A s \in Runs : run[s].at = "saved" /\ last = s => IsFile(InUse) /\ Settled(s)
    BY DEF Quiet, Settled
  <2>2. IsFile(InUse) => InUse' = InUse
    BY DEF InUse, StartPair, Content, Chosen
  <2>3. pinned' = pinned
    BY DEF StartPair
  <2> QED
    BY <1>4, <2>1, <2>2, <2>3 DEF Settled
<1>6. last' = last
  BY DEF StartPair
<1> QED
  BY <1>1, <1>2, <1>3, <1>4, <1>5, <1>6 DEF Quiet, Ended, Active

\* A step of the one run that is at work.
LEMMA PairKeepsQuiet ==
    ASSUME TypeOK, Quiet, NEW r \in Runs, Pair(r), ~StartPair(r) PROVE Quiet'
<1>1. run \in [Runs -> RunStates] /\ run[r] \in RunStates
  BY DEF TypeOK
<1>2. /\ Active(r) /\ run[r].file = Chosen /\ IsFile(InUse) /\ InUse \in Seq(Lines)
      /\ \A s \in Runs : s # r => ~Active(s)
      /\ migration.at # "writing" /\ migration' = migration
  <2>1. Active(r) /\ migration' = migration
    BY DEF Pair, Paired, Pin, ReadConfig, SaveConfig, FailPair, CrashPair, Active, Ended
  <2> QED
    BY <2>1, FileFacts DEF Quiet
<1>3. \A s \in Runs : s # r => run'[s] = run[s] /\ Active(s)' = Active(s)
  BY <1>1 DEF Pair, Paired, Pin, ReadConfig, SaveConfig, FailPair, CrashPair, Active
<1>4. ASSUME UNCHANGED <<conf, legacy>>
      PROVE  Chosen' = Chosen /\ InUse' = InUse
  BY <1>4 DEF Chosen, InUse, Content
<1>5. CASE Paired(r)
  <2>1. run'[r].at = "pinning" /\ run'[r].file = Chosen
    <3>1. \A at \in {"pinning", "reading"} :
            run[r].at \in {"pairing", "pinning"} =>
              [run[r] EXCEPT !.at = at].at = at /\ [run[r] EXCEPT !.at = at].file = run[r].file
      BY <1>1, RunStateIs
    <3>2. run'[r] = [run[r] EXCEPT !.at = "pinning"] /\ run[r].at = "pairing"
      BY <1>1, <1>5 DEF Paired
    <3> QED
      BY <1>2, <3>1, <3>2
  <2>2. Chosen' = Chosen /\ InUse' = InUse /\ UNCHANGED <<pinned, last, edited>>
    BY <1>4, <1>5 DEF Paired
  <2> QED
    BY <1>2, <1>3, <2>1, <2>2 DEF Quiet, Settled
<1>6. CASE Pin(r)
  <2>1. run'[r].at = "reading" /\ run'[r].file = Chosen
    <3>1. \A at \in {"pinning", "reading"} :
            run[r].at \in {"pairing", "pinning"} =>
              [run[r] EXCEPT !.at = at].at = at /\ [run[r] EXCEPT !.at = at].file = run[r].file
      BY <1>1, RunStateIs
    <3>2. run'[r] = [run[r] EXCEPT !.at = "reading"] /\ run[r].at = "pinning"
      BY <1>1, <1>6 DEF Pin
    <3> QED
      BY <1>2, <3>1, <3>2
  <2>2. Chosen' = Chosen /\ InUse' = InUse /\ pinned' = r /\ last' = r /\ edited' = edited
    BY <1>4, <1>6 DEF Pin
  <2>3. \A s \in Runs : s # r => run'[s].at \notin {"reading", "saving"}
    BY <1>2, <1>3 DEF Active, Ended
  <2> QED
    BY <1>2, <1>3, <2>1, <2>2, <2>3 DEF Quiet
<1>7. CASE ReadConfig(r)
  <2>1. /\ run'[r].at = "saving" /\ run'[r].file = Chosen
        /\ run'[r].output = Update(InUse, r)
    <3>1. Content(run[r].file) = InUse
      BY <1>2 DEF InUse
    <3>2. run'[r] = [at |-> "saving", file |-> run[r].file, pinBefore |-> run[r].pinBefore,
                     output |-> Update(InUse, r)]
      BY <1>1, <1>2, <1>7, <3>1 DEF ReadConfig
    <3> QED
      BY <1>2, <3>2
  <2>2. Chosen' = Chosen /\ InUse' = InUse /\ UNCHANGED <<pinned, last, edited>>
    BY <1>4, <1>7 DEF ReadConfig
  <2>3. pinned = r /\ last = r
    BY <1>7 DEF Quiet, ReadConfig
  <2> QED
    BY <1>2, <1>3, <2>1, <2>2, <2>3 DEF Quiet, Settled
<1>8. CASE SaveConfig(r)
  <2>1. run[r].output = Update(InUse, r) /\ pinned = r /\ edited = OtherLines(InUse)
    BY <1>2, <1>8 DEF Quiet, SaveConfig
  <2>2. /\ Update(InUse, r) \in Seq(Lines)
        /\ Reading(Update(InUse, r)) = [name |-> r, host |-> r, strict |-> TRUE]
        /\ OtherLines(Update(InUse, r)) = edited
    BY <1>2, <2>1, UpdateReads
  <2>3. Chosen' = Chosen /\ InUse' = Update(InUse, r) /\ IsFile(InUse')
    <3>1. Replace(Chosen, Update(InUse, r))
      BY <1>2, <1>8, <2>1 DEF SaveConfig
    <3> QED
      BY <2>2, <3>1, ReplacedIsRead
  <2>4. run'[r].at = "saved" /\ pinned' = r /\ last' = r /\ edited' = edited
    BY <1>1, <1>8, <2>1 DEF SaveConfig
  <2>5. Settled(r)'
    BY <2>2, <2>3, <2>4 DEF Settled
  <2>6. \A s \in Runs : ~Active(s)'
    BY <1>2, <1>3, <2>4 DEF Active, Ended
  <2>7. \A s \in Runs : run'[s].at \notin {"reading", "saving"}
    BY <2>6 DEF Active, Ended
  <2> QED
    BY <1>2, <2>2, <2>3, <2>4, <2>5, <2>6, <2>7 DEF Quiet
<1>9. CASE FailPair(r) \/ CrashPair(r)
  <2>1. run'[r].at \in {"failed", "crashed"}
    BY <1>1, <1>9 DEF FailPair, CrashPair
  <2>2. Chosen' = Chosen /\ InUse' = InUse /\ UNCHANGED <<pinned, last, edited>>
    BY <1>4, <1>9 DEF FailPair, CrashPair
  <2>3. ~Active(r)'
    BY <2>1 DEF Active, Ended
  <2> QED
    BY <1>2, <1>3, <2>1, <2>2, <2>3 DEF Quiet, Settled
<1> QED
  BY <1>5, <1>6, <1>7, <1>8, <1>9 DEF Pair

\* The migration, begun while nothing is at work, and the user's edit.
LEMMA MigrationKeepsQuiet ==
    ASSUME TypeOK, Quiet, ~overlap', BeginMigration \/ EndMigration \/ FailMigration \/ Edit
    PROVE  Quiet'
<1>1. \A r \in Runs : run' = run /\ Active(r)' = Active(r)
  BY DEF BeginMigration, EndMigration, FailMigration, Edit, Active
<1>2. UNCHANGED <<pinned, last>>
  BY DEF BeginMigration, EndMigration, FailMigration, Edit
<1>3. ASSUME UNCHANGED <<conf, legacy>>
      PROVE  Chosen' = Chosen /\ InUse' = InUse
  BY <1>3 DEF Chosen, InUse, Content
<1>4. CASE BeginMigration
  <2>1. \A r \in Runs : ~Active(r)
    BY <1>4 DEF BeginMigration, Busy
  <2>2. /\ conf' = Absent /\ legacy' = legacy /\ IsFile(legacy') /\ edited' = edited
        /\ migration'.output = Migrated(legacy)
    BY <1>4 DEF BeginMigration, IsFile
  <2>3. Chosen' = Chosen /\ InUse' = InUse
    BY <1>3, <1>4 DEF BeginMigration
  <2> QED
    BY <1>1, <1>2, <2>1, <2>2, <2>3 DEF Quiet, Settled
<1>5. CASE EndMigration
  <2>1. /\ \A r \in Runs : ~Active(r)
        /\ conf = Absent /\ IsFile(legacy) /\ migration.output = Migrated(legacy)
    BY <1>5 DEF EndMigration, Quiet
  <2>2. InUse = legacy /\ legacy \in Seq(Lines)
    BY <2>1 DEF InUse, Content, Chosen, IsFile, TypeOK
  <2>3. /\ Migrated(legacy) \in Seq(Lines) /\ Reading(Migrated(legacy)) = Reading(legacy)
        /\ OtherLines(Migrated(legacy)) = OtherLines(legacy)
    BY <2>2, MigratedReads
  <2>4. InUse' = Migrated(legacy) /\ IsFile(InUse')
    BY <1>5, <2>1, <2>3, ConfigAssumption DEF EndMigration, InUse, Content, Chosen, IsFile
  <2>5. migration'.at # "writing" /\ edited' = edited
    BY <1>5 DEF EndMigration
  <2>6. \A r \in Runs : Settled(r) => Settled(r)'
    BY <1>2, <2>2, <2>3, <2>4 DEF Settled
  <2> QED
    BY <1>1, <1>2, <2>1, <2>2, <2>3, <2>4, <2>5, <2>6 DEF Quiet, Active, Ended
<1>6. CASE FailMigration
  <2>1. Chosen' = Chosen /\ InUse' = InUse /\ edited' = edited /\ migration'.at # "writing"
    BY <1>3, <1>6 DEF FailMigration
  <2> QED
    BY <1>1, <1>2, <2>1 DEF Quiet, Settled
<1>7. CASE Edit
  <2>1. (\A r \in Runs : ~Active(r)) /\ migration.at # "writing" /\ migration' = migration
    BY <1>7 DEF Edit, Busy
  <2>2. PICK file \in Seq(Lines) :
          /\ Replace(Chosen, file) /\ edited' = OtherLines(file)
          /\ Reading(file) = Reading(InUse)
    BY <1>7, EditIs
  <2>3. InUse' = file /\ IsFile(InUse')
    BY <2>2, ReplacedIsRead
  <2>4. \A r \in Runs : Settled(r) => Settled(r)'
    BY <1>2, <2>2, <2>3 DEF Settled
  <2> QED
    BY <1>1, <1>2, <2>1, <2>2, <2>3, <2>4 DEF Quiet, Active, Ended
<1> QED
  BY <1>4, <1>5, <1>6, <1>7

\* As long as no two were at work at once, the state is quiet.
LEMMA QuietInvariant == Spec => [](TypeOK /\ (~overlap => Quiet))
<1>1. TypeOK /\ Quiet /\ UNCHANGED vars => Quiet'
  BY DEF Quiet, Settled, Active, vars, InUse, Content, Chosen, IsFile
<1>2. ASSUME TypeOK, ~overlap => Quiet, [Next]_vars, ~overlap' PROVE Quiet'
  <2>1. CASE UNCHANGED vars
    BY <1>1, <1>2, <2>1 DEF vars
  <2>2. CASE \E r \in Runs : Pair(r)
    <3>1. PICK r \in Runs : Pair(r)
      BY <2>2
    <3>2. CASE StartPair(r)
      <4>1. ~overlap /\ ~Busy
        BY <1>2, <3>2 DEF StartPair
      <4> QED
        BY <1>2, <3>2, <4>1, StartKeepsQuiet
    <3>3. CASE ~StartPair(r)
      <4>1. ~overlap
        BY <1>2, <3>1, <3>3 DEF Pair, Paired, Pin, ReadConfig, SaveConfig, FailPair, CrashPair
      <4> QED
        BY <1>2, <3>1, <3>3, <4>1, PairKeepsQuiet
    <3> QED
      BY <3>2, <3>3
  <2>3. CASE BeginMigration \/ EndMigration \/ FailMigration \/ Edit
    <3>1. ~overlap
      BY <1>2, <2>3 DEF BeginMigration, EndMigration, FailMigration, Edit
    <3> QED
      BY <1>2, <2>3, <3>1, MigrationKeepsQuiet
  <2> QED
    BY <1>2, <2>1, <2>2, <2>3 DEF Next
<1> QED
  BY <1>2, QuietInit, TypeCorrect, PTL DEF Spec

\* Where the pin stays, no run leaves its two writes but by saving, and the host that is
\* read stays or is no pairing's, the file still follows the pin.
LEMMA PinKept ==
    ASSUME PinFollows, UNCHANGED pinned,
           \A s \in Runs : run[s].at \in {"reading", "saving", "failed", "crashed"}
                            => run'[s].at \in {"reading", "saving", "failed", "crashed"},
           IsFile(InUse') => \/ IsFile(InUse) /\ Lookup(InUse', "host") = Lookup(InUse, "host")
                             \/ Lookup(InUse', "host") \notin Runs
    PROVE  PinFollows'
BY DEF PinFollows

\* Where the files stay, what is read stays.
LEMMA FilesKept ==
    ASSUME UNCHANGED <<conf, legacy>>
    PROVE  InUse' = InUse /\ (IsFile(InUse') <=> IsFile(InUse))
BY DEF InUse, Content, Chosen, IsFile

\* A step of single runs, of a migration or of the user keeps the file with the pin.
LEMMA PinFollowsStep ==
    ASSUME TypeOK, ~overlap => Quiet /\ PinFollows, [Next]_vars, ~overlap'
    PROVE  PinFollows'
<1>1. ~overlap /\ Quiet /\ PinFollows
  <2>1. \A r \in Runs : Pair(r) => ~overlap
    BY DEF Pair, StartPair, Paired, Pin, ReadConfig, SaveConfig, FailPair, CrashPair
  <2>2. BeginMigration \/ EndMigration \/ FailMigration \/ Edit => ~overlap
    BY DEF BeginMigration, EndMigration, FailMigration, Edit
  <2>3. UNCHANGED vars => ~overlap
    BY DEF vars
  <2> QED
    BY <2>1, <2>2, <2>3 DEF Next
<1>2. run \in [Runs -> RunStates]
  BY DEF TypeOK
<1>3. CASE UNCHANGED vars
  BY <1>1, <1>3, PinKept, FilesKept DEF vars
<1>4. ASSUME NEW r \in Runs, StartPair(r) PROVE PinFollows'
  <2>1. \A s \in Runs : run[s].at \in {"reading", "saving", "failed", "crashed"} => run'[s] = run[s]
    BY <1>2, <1>4 DEF StartPair
  <2>2. CASE IsFile(InUse)
    <3>1. UNCHANGED <<conf, legacy, pinned>>
      BY <1>4, <2>2 DEF StartPair, InUse
    <3> QED
      BY <1>1, <2>1, <2>2, <3>1, PinKept, FilesKept
  <2>3. CASE ~ IsFile(InUse)
    <3>1. Chosen = "conf" /\ conf' = Example
      BY <1>4, <2>3, FileFacts DEF StartPair, InUse, Chosen, IsFile
    <3>2. IsFile(Example)
      BY ExampleFacts, ConfigAssumption DEF IsFile
    <3>3. InUse' = Example
      BY <3>1, <3>2 DEF InUse, Content, Chosen, IsFile
    <3>4. pinned' = pinned
      BY <1>4 DEF StartPair
    <3> QED
      BY <1>1, <2>1, <3>3, <3>4, ExampleFacts, PinKept
  <2> QED
    BY <2>2, <2>3
<1>5. ASSUME NEW r \in Runs, Paired(r) \/ ReadConfig(r) \/ FailPair(r) \/ CrashPair(r)
      PROVE  PinFollows'
  <2>1. \A s \in Runs : s # r => run'[s] = run[s]
    BY <1>2, <1>5 DEF Paired, ReadConfig, FailPair, CrashPair
  <2>2. \/ run[r].at = "pairing"
        \/ run'[r].at \in {"saving", "failed", "crashed"}
    BY <1>2, <1>5 DEF Paired, ReadConfig, FailPair, CrashPair
  <2>3. UNCHANGED <<conf, legacy, pinned>>
    BY <1>5 DEF Paired, ReadConfig, FailPair, CrashPair
  <2> QED
    BY <1>1, <2>1, <2>2, <2>3, PinKept, FilesKept
<1>6. ASSUME NEW r \in Runs, Pin(r) PROVE PinFollows'
  <2>1. pinned' = r
    BY <1>6 DEF Pin
  <2>2. run'[r].at = "reading"
    <3>1. run'[r] = [run[r] EXCEPT !.at = "reading"] /\ run[r].at = "pinning" /\ run[r] \in RunStates
      BY <1>2, <1>6 DEF Pin
    <3> QED
      BY <3>1, RunStateIs
  <2> QED
    BY <2>1, <2>2 DEF PinFollows
<1>7. ASSUME NEW r \in Runs, SaveConfig(r) PROVE PinFollows'
  <2>1. /\ run[r].file = Chosen /\ IsFile(InUse)
        /\ run[r].output = Update(InUse, r) /\ pinned = r
    BY <1>1, <1>7 DEF SaveConfig, Quiet, Active, Ended
  <2>2. Update(InUse, r) \in Seq(Lines) /\ Reading(Update(InUse, r)).host = r
    BY <2>1, FileFacts, UpdateReads
  <2>3. InUse' = Update(InUse, r)
    <3>1. Replace(Chosen, Update(InUse, r))
      BY <1>7, <2>1 DEF SaveConfig
    <3> QED
      BY <2>2, <3>1, ReplacedIsRead
  <2>4. Lookup(InUse', "host") = r /\ pinned' = r
    BY <1>7, <2>1, <2>2, <2>3 DEF SaveConfig, Reading
  <2> QED
    BY <2>4 DEF PinFollows
<1>8. CASE BeginMigration \/ FailMigration
  BY <1>1, <1>8, PinKept, FilesKept DEF BeginMigration, FailMigration
<1>9. CASE EndMigration
  <2>1. conf = Absent /\ IsFile(legacy) /\ migration.output = Migrated(legacy)
    BY <1>1, <1>9 DEF EndMigration, Quiet
  <2>2. InUse = legacy /\ legacy \in Seq(Lines)
    BY <2>1 DEF InUse, Content, Chosen, IsFile, TypeOK
  <2>3. Migrated(legacy) \in Seq(Lines) /\ Reading(Migrated(legacy)) = Reading(legacy)
    BY <2>2, MigratedReads
  <2>4. InUse' = Migrated(legacy)
    BY <1>9, <2>1, <2>3, ConfigAssumption DEF EndMigration, InUse, Content, Chosen, IsFile
  <2>5. Lookup(InUse', "host") = Lookup(InUse, "host")
    BY <2>2, <2>3, <2>4 DEF Reading
  <2> QED
    BY <1>1, <1>9, <2>1, <2>2, <2>5, PinKept DEF EndMigration
<1>10. CASE Edit
  <2>1. PICK file \in Seq(Lines) : Replace(Chosen, file) /\ Reading(file) = Reading(InUse)
    BY <1>10, EditIs
  <2>2. IsFile(InUse) /\ Lookup(InUse', "host") = Lookup(InUse, "host")
    BY <1>10, <2>1, EditIs, ReplacedIsRead DEF Reading
  <2> QED
    BY <1>1, <1>10, <2>2, PinKept DEF Edit
<1> QED
  BY <1>3, <1>4, <1>5, <1>6, <1>7, <1>8, <1>9, <1>10 DEF Next, Pair

\* A run that was the last to report "Connection saved" is the one every reader finds,
\* with its pin and strict checking, however many old and repeated keys the file had; and
\* only a later run's two writes part the file from its pin.
THEOREM SavedConnectsTheorem == Spec => []SavedConnects
<1>1. Init => PinFollows
  <2> SUFFICES ASSUME Init, IsFile(InUse) PROVE Lookup(InUse, "host") \notin Runs
    BY DEF PinFollows
  <2>1. PICK file \in BoundedSeq(UserLines, MaxLines) \cup {Absent} :
          \/ conf = file /\ legacy = Absent
          \/ conf = Absent /\ legacy = file
    BY DEF Init
  <2>2. InUse = file
    BY <2>1 DEF InUse, Content, Chosen, IsFile
  <2> QED
    BY <2>1, <2>2, UserFileFacts DEF IsFile
<1>2. /\ TypeOK /\ (~overlap => Quiet) /\ (~overlap => PinFollows) /\ [Next]_vars
      => (~overlap => PinFollows)'
  BY PinFollowsStep
<1>3. (~overlap => Quiet) /\ (~overlap => PinFollows) => SavedConnects
  BY DEF Quiet, Settled, SavedConnects
<1> QED
  BY <1>1, <1>2, <1>3, QuietInvariant, PTL DEF Spec

\* Pairing and migration keep the user's own lines, all of them and in their order.
THEOREM SettingsSurviveTheorem == Spec => []SettingsSurvive
<1>1. (~overlap => Quiet) => SettingsSurvive
  BY DEF Quiet, SettingsSurvive
<1> QED
  BY <1>1, QuietInvariant, PTL

\* A migration that nothing overlaps changes what no reader reads.
THEOREM MigrationKeepsReadingsTheorem == Spec => MigrationKeepsReadings
<1>1. ASSUME TypeOK, ~overlap => Quiet, [Next]_vars,
             migration.at = "writing", migration'.at = "done", ~overlap
      PROVE  Reading(InUse') = Reading(InUse)
  <2>1. EndMigration
    BY <1>1 DEF Next, vars, Pair, StartPair, Paired, Pin, ReadConfig, SaveConfig, FailPair, CrashPair,
                BeginMigration, FailMigration, Edit
  <2>2. conf = Absent /\ IsFile(legacy) /\ migration.output = Migrated(legacy)
    BY <1>1 DEF Quiet
  <2>3. InUse = legacy /\ legacy \in Seq(Lines)
    BY <1>1, <2>2 DEF InUse, Content, Chosen, IsFile, TypeOK
  <2>4. Migrated(legacy) \in Seq(Lines) /\ Reading(Migrated(legacy)) = Reading(legacy)
    BY <2>3, MigratedReads
  <2>5. InUse' = Migrated(legacy)
    BY <2>1, <2>2, <2>4, ConfigAssumption DEF EndMigration, InUse, Content, Chosen, IsFile
  <2> QED
    BY <2>3, <2>4, <2>5
<1>2. TypeOK /\ (~overlap => Quiet) /\ [Next]_vars
        => [migration.at = "writing" /\ migration'.at = "done" /\ ~overlap
              => Reading(InUse') = Reading(InUse)]_vars
  BY <1>1
<1> QED
  BY <1>2, QuietInvariant, PTL DEF Spec, MigrationKeepsReadings
=============================================================================
