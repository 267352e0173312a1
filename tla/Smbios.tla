------------------------------- MODULE Smbios -------------------------------
(***************************************************************************)
(* SMBIOS tables (smbios.c): the -smbios options, the defaults, and the    *)
(* structures smbios_get_tables appends for a machine, with their handles, *)
(* the handles they refer to, and the counts of the entry point.           *)
(*                                                                         *)
(* Every table that is built has size 1, and so has every OEM string.  A   *)
(* string of the user's or a default is told from none; what it says, and  *)
(* all numbers in the tables but handles, are left out.  Type 38 is that   *)
(* of a machine without an IPMI device.  An option refused ends QEMU.      *)
(***************************************************************************)
EXTENDS Integers, Sequences, FiniteSets, SequencesExt

CONSTANTS
  Unit,            \* 0x100: the base of type t's handles is t times this
  MaxLength,       \* SMBIOS_21_MAX_TABLES_LEN
  MaxOptions,      \* bound of the run: -smbios options
  Machines         \* records of sockets, dimms, areas (mem_array_size), manyCores

VARIABLES
  pc,              \* "options", "ready" (defaults are set or not), "tables", "exit"
  usr,             \* blobs loaded, their length, maximum and count, type 4 count
  binfile,         \* smbios_have_binfile_bitmap
  fields,          \* smbios_have_fields_bitmap
  strings,         \* manufacturer of types 0 to 3: "none", "user" or "default"
  instances,       \* lists of types 8, 9 and 41 and OEM strings (11): a PCI device or none
  defaults,        \* smbios_have_defaults
  result           \* what smbios_get_tables made, and for what machine

vars == <<pc, usr, binfile, fields, strings, instances, defaults, result>>

Listed == {8, 9, 11, 41}
WithFields == {0, 1, 2, 3, 4, 17} \cup Listed
Oem == 200                  \* a type above SMBIOS_MAX_TYPE, of a blob
NoDevice == "none"
Devices == {NoDevice, "root", "elsewhere"}      \* pcidev: on the root bus or not
NoTables == [outcome |-> "none", tables |-> <<>>, len |-> 0, max |-> 0, cnt |-> 0]

Init ==
  /\ pc = "options" /\ binfile = {} /\ fields = {} /\ defaults = FALSE
  /\ usr = [blobs |-> <<>>, len |-> 0, max |-> 0, cnt |-> 0]
  /\ strings = [t \in 0..3 |-> "none"]
  /\ instances = [t \in Listed |-> <<>>]
  /\ result = NoTables

(***************************************************************************)
(* smbios_entry_add.                                                       *)
(***************************************************************************)
Options ==
  usr.cnt + Cardinality(fields \ Listed) + Len(instances[8]) + Len(instances[9])
  + Len(instances[11]) + Len(instances[41])
Exit ==
  /\ pc' = "exit"
  /\ UNCHANGED <<usr, binfile, fields, strings, instances, defaults, result>>

Blob(t, size) ==
  [type |-> t, handle |-> -1, refs |-> {}, closed |-> TRUE, user |-> TRUE, text |-> "user",
   size |-> size]
Larger(a, b) == IF a > b THEN a ELSE b

\* file=: refused when fields of its type were given.
AddFile(t, size) ==
  /\ pc = "options" /\ Options < MaxOptions
  /\ IF t \in fields THEN Exit
     ELSE /\ usr' = [blobs |-> Append(usr.blobs, Blob(t, size)), len |-> usr.len + size,
                     max |-> Larger(usr.max, size), cnt |-> usr.cnt + 1]
          /\ binfile' = binfile \cup ({t} \ {Oem})
          /\ UNCHANGED <<pc, fields, strings, instances, defaults, result>>

\* type=: refused when a blob of the type was loaded, when the type is not one
\* whose fields can be given, or when the fields are not valid.
AddFields(t, device) ==
  /\ pc = "options" /\ Options < MaxOptions
  /\ IF t \in binfile \/ t \notin WithFields THEN Exit
     ELSE /\ fields' = fields \cup {t}
          /\ strings' = [s \in 0..3 |-> IF s = t THEN "user" ELSE strings[s]]
          /\ instances' = [s \in Listed |->
                             IF s = t THEN Append(instances[s], device) ELSE instances[s]]
          /\ UNCHANGED <<pc, usr, binfile, defaults, result>>

InvalidFields == pc = "options" /\ Exit

\* smbios_set_defaults, by a machine that has them; others go on without.
SetDefaults ==
  /\ pc = "options" /\ pc' = "ready"
  /\ \/ defaults' = TRUE /\ strings' = [t \in 0..3 |-> IF t # 0 /\ strings[t] = "none"
                                                          THEN "default" ELSE strings[t]]
     \/ UNCHANGED <<defaults, strings>>
  /\ UNCHANGED <<usr, binfile, fields, instances, result>>

(***************************************************************************)
(* The builders.                                                           *)
(***************************************************************************)
SkipTable(t, required) == t \in binfile \/ (t \notin fields /\ ~(defaults /\ required))

\* T8 has the base of T0, and T11 0xe00.
Base(t) == Unit * (CASE t = 8 -> 0 [] t = 11 -> 14 [] OTHER -> t)
Table(t, n) ==
  [type |-> t, handle |-> Base(t) + n, refs |-> {}, closed |-> TRUE, user |-> FALSE,
   text |-> IF t \in 0..3 THEN strings[t] ELSE "none", size |-> 1]
Tables(t, n) == IF SkipTable(t, t # 0) THEN <<>> ELSE [i \in 1..n |-> Table(t, i - 1)]
\* The fields of ts that are handles: of what type they should be, and their value.
Referring(ts, refs) == [i \in DOMAIN ts |-> [ts[i] EXCEPT !.refs = refs]]
First(t) == [to |-> t, handle |-> Base(t)]
\* 0xFF in type 4, 0x3C and 0x40 in type 20, 0x29 in type 27, all below 0x100.
Constant(t) == [to |-> t, handle |-> Unit - 1]

\* Types 0 to 3: one of each; the base board refers to the chassis.
Identity == Tables(0, 1) \o Tables(1, 1) \o Referring(Tables(2, 1), {First(3)}) \o Tables(3, 1)
Processors(m) == Referring(Tables(4, m.sockets), {Constant(7)})
TooManyCores(m, entry) == m.manyCores /\ entry = "32" /\ ~SkipTable(4, TRUE)
Caches == Tables(7, 4)
Ports == Tables(8, Len(instances[8]))
\* Types 9 and 41: an entry whose device is not on the root bus stays half built
\* and ends the list.
Bad(t) == {i \in DOMAIN instances[t] : instances[t][i] = "elsewhere"}
DeviceError(t) == Bad(t) # {} /\ ~SkipTable(t, TRUE)
WithDevices(t) ==
  LET ts == Tables(t, Len(instances[t]))
      first == CHOOSE i \in Bad(t) : \A j \in Bad(t) : i <= j
  IN IF DeviceError(t) THEN [SubSeq(ts, 1, first) EXCEPT ![first].closed = FALSE] ELSE ts
\* The strings are freed as they are copied: a second build finds none.
OemStrings(again) ==
  IF instances[11] = <<>> \/ SkipTable(11, TRUE) THEN <<>>
  ELSE <<[Table(11, 0) EXCEPT !.size = 1 + (IF again THEN 0 ELSE Len(instances[11])),
                              !.text = IF again THEN "none" ELSE "user"]>>
Offset(m) == Larger(m.dimms - (Base(19) - Base(17)), 0)
Mapped(m, i) ==
  LET at == <<Table(19, Offset(m) + i)>>
  IN Referring(IF SkipTable(19, TRUE) THEN <<>> ELSE at, {First(16)})
DeviceMapped == Referring(Tables(20, 1), {Constant(17), Constant(19)})
MappedAll(m) == FlattenSeq([i \in 1..m.dimms |-> Mapped(m, i - 1) \o DeviceMapped])
Memory(m) == Tables(16, 1) \o Referring(Tables(17, m.dimms), {First(16)}) \o MappedAll(m)
Sensors ==
  Tables(26, 2) \o Referring(Tables(27, 1), {Constant(28)}) \o Tables(28, 2) \o Tables(29, 1)
Rest == Tables(32, 1) \o Tables(37, 1) \o Tables(39, 1) \o WithDevices(41) \o Tables(127, 1)

Built(m, again) ==
  Identity \o Processors(m) \o Caches \o Ports \o WithDevices(9) \o OemStrings(again)
  \o Memory(m) \o Tables(22, 1) \o Sensors \o Rest

(***************************************************************************)
(* smbios_get_tables_ep.  The errors of types 9 and 41 are left in errp,   *)
(* where a second one asserts; more devices than areas read past the array *)
(* of areas.  The count of type 4 is that of the tables built: it equals   *)
(* the sockets, or is zero.                                                *)
(***************************************************************************)
TotalSize(ts) == FoldLeft(LAMBDA sum, t : sum + t.size, 0, ts)
MaxSize(ts) == FoldLeft(LAMBDA max, t : Larger(max, t.size), usr.max, ts)
IsClosed(t) == t.closed
EndOfTable(m) == m.areas + Offset(m) < Base(32) - Base(19)

Outcomes(m, entry, len) ==
  LET errors == {t \in {9, 41} : DeviceError(t)}
      long == entry = "32" /\ len > MaxLength
  IN IF TooManyCores(m, entry) THEN {"error"}
     ELSE IF ~EndOfTable(m) \/ Cardinality(errors) = 2 \/ (errors # {} /\ long) THEN {"abort"}
     ELSE (IF long THEN {"error"} ELSE {"valid"})
          \cup (IF m.dimms > m.areas THEN {"abort"} ELSE {})

TablesEp(m, entry, again) ==
  LET ts == Built(m, again)
      len == usr.len + TotalSize(ts)
      made == [tables |-> usr.blobs \o ts, len |-> len, max |-> MaxSize(SelectSeq(ts, IsClosed)),
               cnt |-> usr.cnt + Len(SelectSeq(ts, IsClosed))]
  IN {[outcome |-> o, tables |-> made.tables, len |-> made.len, max |-> made.max,
       cnt |-> made.cnt, machine |-> m, entry |-> entry, again |-> again] :
      o \in Outcomes(m, entry, len)}

\* smbios_get_tables: the automatic choice tries 32 bits and then 64; the first
\* build has freed the OEM strings if it came to them.
GetTables(m, entry) ==
  /\ pc = "ready" /\ pc' = "tables"
  /\ \E r \in TablesEp(m, IF entry = "auto" THEN "32" ELSE entry, FALSE) :
       IF entry = "auto" /\ r.outcome = "error"
         THEN result' \in TablesEp(m, "64", ~TooManyCores(m, "32") /\ ~SkipTable(11, TRUE))
         ELSE result' = r
  /\ UNCHANGED <<usr, binfile, fields, strings, instances, defaults>>

\* The guest runs, or QEMU has ended.
Done == pc \in {"tables", "exit"} /\ UNCHANGED vars

Next ==
  \/ \E t \in {3, 4, 16, Oem}, size \in {1, 3} : AddFile(t, size)
  \/ \E t \in WithFields \cup {16} : AddFields(t, NoDevice)
  \/ \E t \in {9, 41}, device \in Devices : AddFields(t, device)
  \/ InvalidFields
  \/ SetDefaults
  \/ \E m \in Machines, entry \in {"32", "64", "auto"} : GetTables(m, entry)
  \/ Done

Spec == Init /\ [][Next]_vars

(***************************************************************************)
(* Properties.                                                             *)
(***************************************************************************)
Valid == pc = "tables" /\ result.outcome = "valid"
BuiltTables == {i \in DOMAIN result.tables : ~result.tables[i].user}

\* The guest walks all structures: the entry point counts every one, knows the
\* largest, and only a device that is not there leaves one without its end.
Walkable ==
  LET all == result.tables
  IN ~DeviceError(9) /\ ~DeviceError(41) =>
       /\ result.cnt = Len(all)
       /\ \A i \in DOMAIN all : all[i].closed /\ all[i].size <= result.max
       /\ result.len = TotalSize(all)

\* Handles are those of one table, but for types 0 and 8, which share a base,
\* type 20, whose tables all have one, and type 19 where it runs past its range
\* into those of the types between 19 and 32.
MayShare(a, b) ==
  \/ {a, b} = {0, 8}
  \/ a = 20 /\ b = 20
  \/ 19 \in {a, b} /\ {a, b} \cap {20, 22, 26, 27, 28, 29} # {} /\ result.machine.dimms > Unit
OneHandle ==
  \A i, j \in BuiltTables :
    LET a == result.tables[i]
        b == result.tables[j]
    IN i # j /\ a.handle = b.handle => MayShare(a.type, b.type)

\* A handle that is referred to is that of a table which is there and has the type
\* the field asks for, unless the user gave the tables of that type.  Types 4, 20
\* and 27 are the exception: their handles are constants that were never those of
\* the tables built (0xFF, "N/A" in a comment, though type 7 is built since).
Placeholders == {4, 20, 27}
Resolved ==
  defaults =>
    \A i \in BuiltTables : \A r \in result.tables[i].refs :
      LET found == {j \in BuiltTables : result.tables[j].handle = r.handle}
      IN \/ result.tables[i].type \in Placeholders
         \/ r.to \in binfile
         \/ found # {} /\ \A j \in found : result.tables[j].type = r.to

\* A type comes from the user's blobs or is built, and what the user gave is in
\* its table; OEM strings are lost when the automatic choice builds twice.
UserKept ==
  \A t \in WithFields :
    LET built == {i \in BuiltTables : result.tables[i].type = t}
    IN /\ t \in binfile => built = {}
       /\ t \in fields => built # {}
       /\ t \in fields \cap (0..3 \cup {11}) /\ ~(t = 11 /\ result.again) =>
            \A i \in built : result.tables[i].text = "user"


=============================================================================
