------------------------------ MODULE ShortName ------------------------------
(***************************************************************************)
(* The names of FAT directory entries: fat_make_short_name turns the name a*)
(* program gives into a padded upper-case base and extension, a lookup     *)
(* turns each stored name back and compares without regard to case.  One   *)
(* directory, of which only the names are kept.                            *)
(***************************************************************************)
EXTENDS Naturals, Sequences, FiniteSets

CONSTANTS BaseMax, ExtMax, \* bytes of base and extension (8 and 3)
          Characters,      \* bytes of the names given
          Refused,         \* those a short name may not contain
          Raised,          \* lower-case letter -> its upper-case letter
          Period, Space,   \* the bytes "." and " "
          NameMax,         \* bound: length of the names given
          DirEntries       \* bound: slots of the directory

VARIABLES entries, \* slot -> the name stored in it, or <<>>
          dotted   \* history: a file was created by a name that ends in a period

nameVars == <<entries, dotted>>

Given == UNION {[1 .. k -> Characters] : k \in 1 .. NameMax}
Rejected == <<>>
Periods(name) == {i \in 1 .. Len(name) : name[i] = Period}
BaseEnd(name) == IF Periods(name) = {} THEN Len(name)
                 ELSE (CHOOSE i \in Periods(name) : \A j \in Periods(name) : i <= j) - 1
Base(name) == SubSeq(name, 1, BaseEnd(name))
Extension(name) == SubSeq(name, BaseEnd(name) + 2, Len(name))
Upper(c) == IF c \in DOMAIN Raised THEN Raised[c] ELSE c

Padded(s, n) == [i \in 1 .. n |-> IF i <= Len(s) THEN Upper(s[i]) ELSE Space]

\* Mutant of fat_make_short_name: a base that is too long is cut off.
ShortNameCut(name) ==
  IF \/ Cardinality(Periods(name)) > 1 \/ Base(name) = <<>>
     \/ \E i \in 1 .. Len(name) : name[i] \in Refused
     \/ Len(Extension(name)) > ExtMax
  THEN Rejected
  ELSE Padded(Base(name), BaseMax) \o Padded(Extension(name), ExtMax)

fat_make_short_name(name) ==
  IF \/ Cardinality(Periods(name)) > 1 \/ Base(name) = <<>>
     \/ \E i \in 1 .. Len(name) : name[i] \in Refused
     \/ Len(Base(name)) > BaseMax \/ Len(Extension(name)) > ExtMax
  THEN Rejected
  ELSE Padded(Base(name), BaseMax) \o Padded(Extension(name), ExtMax)

Stored == [name \in Given |-> fat_make_short_name(name)]

(* Each part up to its padding; no period when there is no extension. *)
fat_name_to_str(short) ==
  LET Unpadded(s) == SelectSeq(s, LAMBDA c : c # Space)
      ext == Unpadded(SubSeq(short, BaseMax + 1, BaseMax + ExtMax))
  IN Unpadded(SubSeq(short, 1, BaseMax)) \o (IF ext = <<>> THEN <<>> ELSE <<Period>> \o ext)

strcasecmp_equal(s, t) ==
  Len(s) = Len(t) /\ \A i \in 1 .. Len(s) : Upper(s[i]) = Upper(t[i])

Matches(name) ==
  {i \in 1 .. DirEntries :
     entries[i] # <<>> /\ strcasecmp_equal(fat_name_to_str(entries[i]), name)}
FirstOf(S) == {i \in S : \A j \in S : i <= j}

------------------------------------------------------------------------------
NamesInit == entries = [i \in 1 .. DirEntries |-> <<>>] /\ dotted = FALSE

NameCreated(name) ==
  /\ Stored[name] # Rejected /\ Matches(name) = {}
  /\ \E i \in FirstOf({j \in 1 .. DirEntries : entries[j] = <<>>}) :
       entries' = [entries EXCEPT ![i] = Stored[name]]
  /\ dotted' = (dotted \/ name[Len(name)] = Period)

NameUnlinked(name) ==
  /\ \E i \in FirstOf(Matches(name)) : entries' = [entries EXCEPT ![i] = <<>>]
  /\ UNCHANGED dotted

NamesNext == \E name \in Given : NameCreated(name) \/ NameUnlinked(name)

NamesSpec == NamesInit /\ [][NamesNext]_nameVars

------------------------------------------------------------------------------
Occupied == {i \in 1 .. DirEntries : entries[i] # <<>>}

(* No two entries of a directory have the same stored name, as long as no   *)
(* file was created by a name that ends in a period: fat_create_vn looks    *)
(* for the name as given, while the entry loses the period.                 *)
ShortNamesDistinct ==
  ~dotted => \A i, j \in Occupied : entries[i] = entries[j] => i = j

(* A name leads to an entry exactly when that entry is what creating the    *)
(* name would store, so whatever was created is found again, in any case of *)
(* its letters, and nothing else is.                                        *)
LookupMatchesStored ==
  Occupied # {} => \A name \in Given : Stored[name] # Rejected /\ name[Len(name)] # Period =>
     Matches(name) = {i \in Occupied : entries[i] = Stored[name]}

(* Names and entries correspond one to one (fat_create_vn, fat_lookup_vn).  *)
NamesSound == ShortNamesDistinct /\ LookupMatchesStored
==============================================================================
