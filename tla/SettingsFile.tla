---------------------------- MODULE SettingsFile ----------------------------
(***************************************************************************)
(* The settings the CEC plugins keep in a JSON file: the members of        *)
(* HdmiCecSinkImplementation or HdmiCecSourceImplementation, loadSettings, *)
(* the setters, and Utils::persistJsonSettings, which reads the file, then *)
(* destroys it, creates it again and writes it back with one key changed.  *)
(* No lock is held, so the writes of two callers may overlap, and the      *)
(* process may die between any two steps.                                  *)
(*                                                                         *)
(* A file that was destroyed lives on for whoever has it open: "disk" are  *)
(* the files, "path" the one the name leads to.  The variables may and met *)
(* are history.                                                            *)
(***************************************************************************)
EXTENDS Integers, Sequences, FiniteSets, TLC

CONSTANTS
  Callers,
  Names, DefaultName,   \* OSD names, no longer than a CEC name may be
  VendorTexts, Invalid, \* vendor ids as numbers, and a text stoi refuses
  MaxCalls, MaxCrashes

SettingsAssumption == VendorTexts \subseteq Nat

DefaultVendorId == 6651     \* 0x0019FB
VendorIds == 16777216       \* 2 ^ 24
Keys == {"cecEnabled", "cecOTPEnabled", "cecOSDName", "cecVendorId"}
Blank == [label \in {} |-> 0]   \* a file is a function of the labels it has
Defaults == [cecEnabled |-> TRUE, cecOTPEnabled |-> TRUE,
             cecOSDName |-> DefaultName, cecVendorId |-> DefaultVendorId]
NoCall == [at |-> "idle"]

VARIABLES
  plugin,       \* "sink" or "source"
  phase,        \* "down", "loading", "up"
  member,       \* cecSettingEnabled, cecOTPSettingEnabled, osdName, appVendorId
  path, disk,   \* which file has the name (0: none), and the files
  call,         \* caller |-> the setter under way
  calls, crashes,
  may,          \* the settings a restart may bring
  met           \* two calls overlapped

vars == <<plugin, phase, member, path, disk, call, calls, crashes, may, met>>

\* The members made of the file's values: a vendor id is three bytes.
Members(settings) == [settings EXCEPT !.cecVendorId = @ % VendorIds]

\* FromFile: an absent label has its default.
Overridden(content) == Defaults @@ content
Completed(content) ==
  [k \in Keys |-> IF k \in DOMAIN content THEN content[k] ELSE Defaults[k]]

WithKey(content, k, v) ==
  [label \in DOMAIN content \cup {k} |-> IF label = k THEN v ELSE content[label]]

\* SetVendorId falls back on the default.
Asked(k) ==
  CASE k = "cecVendorId" -> {IF t = Invalid THEN DefaultVendorId ELSE t : t \in VendorTexts \cup {Invalid}}
    [] k = "cecOSDName" -> Names
    [] OTHER -> BOOLEAN

\* Only the source plugin has SetOTPEnabled.
Settable == IF plugin = "sink" THEN Keys \ {"cecOTPEnabled"} ELSE Keys

\* setEnabled and SetOTPEnabled persist a new value, and then set the member.
PersistFirst(k) == k \in {"cecEnabled", "cecOTPEnabled"}

Others(c) == {o \in Callers \ {c} : call[o] # NoCall}

Set(c, k, v) ==
  /\ phase = "up" /\ call[c] = NoCall /\ calls < MaxCalls
  /\ calls' = calls + 1
  /\ met' = (met \/ Others(c) # {})
  /\ IF PersistFirst(k)
     THEN UNCHANGED member
     ELSE member' = Members([member EXCEPT ![k] = v])
  /\ IF PersistFirst(k) /\ member[k] = v
     THEN UNCHANGED call
     ELSE call' = [call EXCEPT ![c] =
            [at |-> "open", setting |-> <<k, v>>, file |-> 0, content |-> Blank]]
  /\ UNCHANGED <<plugin, phase, path, disk, crashes, may>>

GoesTo(c, next) == call' = [call EXCEPT ![c] = next]

\* File::Create: a new file, or the one of that name emptied.
Create(c, next) ==
  /\ IF path = 0
     THEN disk' = Append(disk, Blank) /\ path' = Len(disk) + 1
     ELSE disk' = [disk EXCEPT ![path] = Blank] /\ UNCHANGED path
  /\ GoesTo(c, [call[c] EXCEPT !.at = next, !.file = path'])

Open(c) ==
  /\ call[c].at = "open"
  /\ IF path = 0 THEN Create(c, "read")
     ELSE GoesTo(c, [call[c] EXCEPT !.at = "read", !.file = path]) /\ UNCHANGED <<path, disk>>
  /\ UNCHANGED <<phase, member, may>>

FromFile(c) ==
  /\ call[c].at = "read"
  /\ GoesTo(c, [call[c] EXCEPT !.at = "destroy",
                  !.content = WithKey(disk[call[c].file], call[c].setting[1], call[c].setting[2])])
  /\ UNCHANGED <<phase, member, path, disk, may>>

Destroy(c) ==
  /\ call[c].at = "destroy" /\ path' = 0
  /\ GoesTo(c, [call[c] EXCEPT !.at = "create"])
  /\ UNCHANGED <<phase, member, disk, may>>

Recreate(c) ==
  /\ call[c].at = "create" /\ Create(c, "write")
  /\ UNCHANGED <<phase, member, may>>

ToFile(c) ==
  /\ call[c].at = "write"
  /\ disk' = [disk EXCEPT ![call[c].file] = call[c].content]
  /\ IF phase = "loading"
     THEN GoesTo(c, NoCall) /\ phase' = "up"
     ELSE GoesTo(c, [call[c] EXCEPT !.at = "written"]) /\ UNCHANGED phase
  /\ UNCHANGED <<member, path, may>>

Return(c) ==
  /\ call[c].at = "written"
  /\ LET k == call[c].setting[1]
         v == call[c].setting[2] IN
     /\ member' = IF PersistFirst(k) THEN [member EXCEPT ![k] = v] ELSE member
     /\ may' = {[s EXCEPT ![k] = v] : s \in may}
  /\ GoesTo(c, NoCall)
  /\ UNCHANGED <<phase, path, disk>>

Persist(c) ==
  /\ Open(c) \/ FromFile(c) \/ Destroy(c) \/ Recreate(c) \/ ToFile(c) \/ Return(c)
  /\ UNCHANGED <<plugin, calls, crashes, met>>

\* What loadSettings writes when there is no file; the sink forgets a label.
DefaultFile ==
  [k \in IF plugin = "sink" THEN Keys \ {"cecOTPEnabled"} ELSE Keys |-> Defaults[k]]

\* loadSettings, on one thread: the members, and the file again unless it was complete.
loadSettings(c) ==
  LET content == IF path = 0 THEN DefaultFile ELSE disk[path] IN
  /\ phase = "down"
  /\ member' = Members(Completed(content))
  /\ may' = {s \in may : Members(s) = member'}
  /\ IF path # 0 /\ DOMAIN content = Keys
     THEN phase' = "up" /\ UNCHANGED call
     ELSE /\ phase' = "loading"
          /\ GoesTo(c, [at |-> IF path = 0 THEN "create" ELSE "destroy", setting |-> <<"none", 0>>,
                        file |-> path, content |-> IF path = 0 THEN DefaultFile ELSE Completed(content)])
  /\ UNCHANGED <<plugin, path, disk, calls, crashes, met>>

\* The process dies; a write it dies in has the old values, the new ones or none.
Crash ==
  /\ phase # "down" /\ crashes < MaxCrashes /\ crashes' = crashes + 1
  /\ phase' = "down"
  /\ call' = [c \in Callers |-> NoCall]
  /\ disk' = IF path = 0 THEN <<>> ELSE <<disk[path]>>
  /\ path' = Len(disk')
  /\ LET busy == {c \in Callers : call[c] # NoCall}
         setting == {call[c].setting : c \in {b \in busy : call[b].setting[1] # "none"}} IN
     may' = may \cup (UNION {{[s EXCEPT ![kv[1]] = kv[2]] : s \in may} : kv \in setting})
                \cup (IF busy = {} THEN {} ELSE {Defaults})
  /\ UNCHANGED <<plugin, member, calls, met>>

Init ==
  /\ plugin \in {"sink", "source"}
  /\ phase = "down" /\ member = Members(Defaults)
  /\ path = 0 /\ disk = <<>>
  /\ call = [c \in Callers |-> NoCall]
  /\ calls = 0 /\ crashes = 0
  /\ may = {Defaults} /\ met = FALSE

Next ==
  \/ \E c \in Callers : loadSettings(c) \/ Persist(c) \/ \E k \in Settable : \E v \in Asked(k) : Set(c, k, v)
  \/ Crash

Spec == Init /\ [][Next]_vars
-----------------------------------------------------------------------------
TypeOK ==
  /\ member.cecVendorId \in 0 .. VendorIds - 1 /\ member.cecOSDName \in Names \cup {DefaultName}
  /\ path \in 0 .. Len(disk)
  /\ \A c \in Callers : call[c] # NoCall => phase # "down" /\ call[c].file \in 0 .. Len(disk)

\* What was set is kept over restarts: when no call is under way, and none ever
\* overlapped another, the members are what the setters left, and the next start
\* will find the same in the file.  A crash in a call may bring back the old value,
\* or every default, but never a mixture; a crash at rest changes nothing.
SettingsKept ==
  phase = "up" /\ (\A c \in Callers : call[c] = NoCall) /\ ~met
    => /\ member \in {Members(s) : s \in may}
       /\ path # 0 /\ Members(Completed(disk[path])) = member
=============================================================================
