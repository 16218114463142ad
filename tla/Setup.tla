---------------------------------- MODULE Setup ----------------------------------
(***************************************************************************)
(* The welcome screen: get_info of src/common/get_info.c with the two line *)
(* editors (get_line, and title_edit on the Atari), the stored settings of *)
(* appstore_settings.c, the pacing that uses the fetch interval, and the   *)
(* registration that sends the name (add_client_csv.c, connection.c).      *)
(*                                                                         *)
(* A buffer is an array of characters with a terminator, because what the  *)
(* editors do to it is what can go wrong.  The app-store belongs to        *)
(* FujiNet: a read may fail, a write may fail before or after it was done, *)
(* or store only the beginning.  The wording and the layout of the screen, *)
(* the tcp:// put before an endpoint and the signs strtoul accepts are     *)
(* left out.                                                               *)
(***************************************************************************)
EXTENDS Integers, Sequences, FiniteSets, SequencesExt

CONSTANTS
  Targets,    \* builds: [title: the Atari's editor, pacing: a fetch interval
              \* and registration capabilities, caps: those asked for]
  Lengths,    \* ENDPOINT_LEN, NAME_LEN, FETCH_INTERVAL_LEN
  Keys,       \* per field: the characters the user types
  FrameMs,    \* BWC_FETCH_PACE_FRAME_MS
  Numbers,    \* the registration's version, screen and world
  CsvSize,    \* the buffer it is built in
  MaxEdits    \* bound

Settings == {"endpoint", "name", "interval"}
NUL == "nul"
Space == " "
Comma == ","

ASSUME TargetAssumption ==
  /\ Targets \subseteq [title : BOOLEAN, pacing : BOOLEAN, caps : Nat]
  /\ \A t \in Targets : t.caps < 256 * 256
\* The field of an interval has room for 1000.
ASSUME LengthAssumption == Lengths \in [Settings -> Nat \ {0, 1}] /\ Lengths["interval"] >= 4
ASSUME KeyAssumption == \A f \in Settings : NUL \notin Keys[f]
\* 16 or 20: a byte counts the frames of the longest interval.
ASSUME FrameAssumption == FrameMs \in Nat \ {0} /\ 1000 <= 255 * FrameMs /\ MaxEdits \in Nat
\* "small by construction, well inside int range" (add_client_csv.c).
ASSUME CsvAssumption ==
  /\ Numbers \in Seq(Nat) /\ CsvSize \in Nat
  /\ \A k \in 1 .. Len(Numbers) : Numbers[k] < 128 * 256

VARIABLES
  target,             \* constant
  buf,                \* endpoint_input, name, fetch_interval_input
  fetch_interval_ms,
  store,              \* the app-store
  pc,                 \* "start", "menu", "edit", "apply", "launched",
                      \* "registered", "exited"
  field, i,           \* the setting edited, and the editor's index
  edits,
  kept, loaded        \* history: what the user believes is stored, or Unknown;
                      \* settings read in this run and not edited since

settings == <<buf, fetch_interval_ms>>
history == <<kept, loaded>>
vars == <<target, settings, store, pc, field, i, edits, history>>

Unknown == <<NUL>>
Fields == IF target.pacing THEN Settings ELSE Settings \ {"interval"}

-----------------------------------------------------------------------------
(* Strings.                                                                *)

Blank(f) == [k \in 0 .. Lengths[f] |-> NUL]

\* The C string in an array; all of the array if nothing ends it.
Text(b) ==
  LET length == Cardinality({k \in DOMAIN b : \A m \in 0 .. k : b[m] # NUL})
  IN  [k \in 1 .. length |-> b[k - 1]]

Put(b, text) ==
  [k \in DOMAIN b |-> CASE k < Len(text) -> text[k + 1]
                        [] k = Len(text) -> NUL
                        [] OTHER -> b[k]]

Digits == <<"0", "1", "2", "3", "4", "5", "6", "7", "8", "9">>
HexDigits == <<"0", "1", "2", "3", "4", "5", "6", "7", "8", "9", "A", "B", "C", "D", "E", "F">>

\* The least number of figures, which are found from the last one on.
Figures(v, figures) ==
  LET base == Len(figures)
      left[k \in 0 .. 10] == IF k = 0 THEN v ELSE left[k - 1] \div base
      n == CHOOSE n \in 1 .. 10 : left[n] = 0 /\ (n = 1 \/ left[n - 1] # 0)
  IN  [k \in 1 .. n |-> figures[(left[n - k] % base) + 1]]

Value(text, figures) ==
  LET Of(c) == (CHOOSE f \in DOMAIN figures : figures[f] = c) - 1
      value[k \in 0 .. Len(text)] ==
        IF k = 0 THEN 0 ELSE Len(figures) * value[k - 1] + Of(text[k])
  IN  value[Len(text)]

itoa(v) == Figures(v, Digits)
Hex(v) == <<"0", "x">> \o Figures(v, HexDigits)
Number(text) == Value(text, Digits)

\* strtoul skips leading blanks.
Numeral(text) ==
  LET blanks == Cardinality({k \in 1 .. Len(text) : \A m \in 1 .. k : text[m] = Space})
  IN  SubSeq(text, blanks + 1, Len(text))

Default == 100

\* parse_fetch_interval.
ValidInterval(text) ==
  /\ Numeral(text) # <<>> /\ Range(Numeral(text)) \subseteq Range(Digits)
  /\ Number(Numeral(text)) \in 10 .. 1000

\* bwc_fetch_pace_frames.
Frames(interval_ms) ==
  LET frames == (interval_ms + FrameMs - 1) \div FrameMs
  IN  IF frames > 255 THEN 255 ELSE frames

-----------------------------------------------------------------------------
Init ==
  /\ target \in Targets
  /\ buf = [f \in Settings |-> Blank(f)] /\ fetch_interval_ms = Default
  /\ store = [f \in Settings |-> <<>>] /\ pc = "start" /\ field = "endpoint" /\ i = 0
  /\ edits = 0 /\ kept = store /\ loaded = {}

Prefix(text, n) == IF Len(text) <= n THEN text ELSE SubSeq(text, 1, n)

\* (mutant) room for the terminator is left twice
Stored_Short(f) == Prefix(store[f], Lengths[f] - 1)

\* What appstore_read_setting finds: nothing, or as much as the buffer holds.
Stored(f) == Prefix(store[f], Lengths[f])

\* The interval the program starts with, and what its field then shows.
StartInterval(text) ==
  fetch_interval_ms' = IF ValidInterval(text) THEN Number(Numeral(text)) ELSE Default

Shown(f, text) ==
  IF f = "interval" /\ text # <<>> /\ ~ValidInterval(text) THEN itoa(Default) ELSE text

\* get_info up to its loop.
WelcomeScreen ==
  /\ pc = "start" /\ pc' = "menu"
  /\ \E failing \in SUBSET Fields :
       LET read == [f \in Settings |-> IF f \in failing THEN <<>> ELSE Stored(f)]
       IN  /\ buf' = [f \in Settings |->
                        IF f \in Fields THEN Put(Blank(f), Shown(f, read[f])) ELSE buf[f]]
           /\ \/ target.pacing /\ StartInterval(read["interval"])
              \/ ~target.pacing /\ UNCHANGED fetch_interval_ms
           /\ loaded' = Fields \ failing
  /\ UNCHANGED <<target, store, field, i, edits, kept>>

\* The menu's letters: get_input clears the field, title_edit too.
Choose(f) ==
  /\ pc = "menu" /\ pc' = "edit" /\ edits < MaxEdits /\ edits' = edits + 1
  /\ field' = f /\ i' = 0 /\ buf' = [buf EXCEPT ![f] = Blank(f)]
  /\ loaded' = loaded \ {f}
  /\ UNCHANGED <<target, fetch_interval_ms, store, kept>>

-----------------------------------------------------------------------------
(* The editors.                                                            *)

Edit(at, c, index) ==
  /\ buf' = [buf EXCEPT ![field][at] = c] /\ i' = index
  /\ UNCHANGED <<target, fetch_interval_ms, store, pc, field, edits, history>>

LastPlace == Lengths[field] - 1

\* get_line: the last place takes one character after the other.
TypeInLine(c) ==
  /\ pc = "edit" /\ ~target.title
  /\ Edit(i, c, IF i < LastPlace THEN i + 1 ELSE i)

\* (mutant) the last place is erased like the others
EraseInLine_Plain ==
  /\ pc = "edit" /\ ~target.title /\ i # 0
  /\ Edit(i - 1, NUL, i - 1)

EraseInLine ==
  /\ pc = "edit" /\ ~target.title /\ i # 0
  /\ \/ i = LastPlace /\ buf[field][i] # NUL /\ Edit(i, NUL, i)
     \/ ~(i = LastPlace /\ buf[field][i] # NUL) /\ Edit(i - 1, NUL, i - 1)

\* title_edit leaves the last place free.
TypeInTitle(c) ==
  /\ pc = "edit" /\ target.title /\ i < LastPlace
  /\ buf' = [buf EXCEPT ![field][i] = c, ![field][i + 1] = NUL] /\ i' = i + 1
  /\ UNCHANGED <<target, fetch_interval_ms, store, pc, field, edits, history>>

EraseInTitle == pc = "edit" /\ target.title /\ i # 0 /\ Edit(i - 1, NUL, i - 1)

Enter ==
  /\ pc = "edit" /\ pc' = "apply"
  /\ UNCHANGED <<target, settings, store, field, i, edits, history>>

-----------------------------------------------------------------------------
(* What follows an edit.                                                   *)

\* appstore_write_setting: done, or failed, which is said, after none, a part or
\* all of it was written.
WriteSetting(text) ==
  \/ /\ store' = [store EXCEPT ![field] = text]
     /\ kept' = [kept EXCEPT ![field] = text]
  \/ /\ \/ \E n \in 0 .. Len(text) - 1 : store' = [store EXCEPT ![field] = Prefix(text, n)]
        \/ store' \in {store, [store EXCEPT ![field] = text]}
     /\ kept' = [kept EXCEPT ![field] = Unknown]

ApplyText ==
  /\ pc = "apply" /\ pc' = "menu" /\ field # "interval"
  /\ WriteSetting(Text(buf[field]))
  /\ UNCHANGED <<target, settings, field, i, edits, loaded>>

\* (mutant) a rejected interval stays in its field
ShowInterval_Typed == UNCHANGED buf

\* itoa and show_fetch_interval.
ShowInterval == buf' = [buf EXCEPT !["interval"] = Put(@, itoa(fetch_interval_ms'))]

ApplyInterval ==
  /\ pc = "apply" /\ pc' = "menu" /\ field = "interval"
  /\ LET text == Text(buf["interval"])
     IN  \/ /\ ValidInterval(text) /\ fetch_interval_ms' = Number(Numeral(text))
            /\ WriteSetting(text)
         \/ ~ValidInterval(text) /\ UNCHANGED <<fetch_interval_ms, store, kept>>
  /\ ShowInterval
  /\ UNCHANGED <<target, field, i, edits, loaded>>

\* Any other key, once both fields are filled.
Launch ==
  /\ pc = "menu" /\ pc' = "launched"
  /\ \A f \in {"endpoint", "name"} : Text(buf[f]) # <<>>
  /\ UNCHANGED <<target, settings, store, field, i, edits, history>>

\* (mutant) the terminator needs no room
Fits_Full(text) == Len(text) <= CsvSize

\* csv_writer keeps a byte for the terminator.
Fits(text) == Len(text) < CsvSize

\* bwc_build_add_client_csv, and the same without capabilities.
Csv(name, caps) ==
  LET written[k \in 0 .. Len(Numbers)] ==
        IF k = 0 THEN name ELSE written[k - 1] \o <<Comma>> \o itoa(Numbers[k])
  IN  written[Len(Numbers)] \o IF caps = 0 THEN <<>> ELSE <<Comma>> \o Hex(caps)

\* "The name is at most 8 characters, so this fits" (send_client_data).
ASSUME LegacyAssumption ==
  \A t \in Targets : t.pacing \/ Len(Csv([k \in 1 .. Lengths["name"] |-> "a"], t.caps)) < CsvSize

Registration == Csv(Text(buf["name"]), target.caps)

\* send_client_data.
Register ==
  /\ pc = "launched"
  /\ pc' = IF target.pacing => Fits(Registration) THEN "registered" ELSE "exited"
  /\ UNCHANGED <<target, settings, store, field, i, edits, history>>

\* The program is started again; the Atari's main only goes round.
Restart ==
  /\ pc \in {"menu", "registered", "exited"} /\ pc' = "start"
  /\ \/ target.title /\ pc = "registered" /\ UNCHANGED settings
     \/ /\ buf' = [f \in Settings |-> Blank(f)] /\ fetch_interval_ms' = Default
  /\ loaded' = {}
  /\ UNCHANGED <<target, store, field, i, edits, kept>>

-----------------------------------------------------------------------------
Next ==
  \/ WelcomeScreen
  \/ \E f \in Fields : Choose(f)
  \/ \E c \in Keys[field] : TypeInLine(c) \/ TypeInTitle(c)
  \/ EraseInLine \/ EraseInTitle \/ Enter
  \/ ApplyText \/ ApplyInterval
  \/ Launch \/ Register \/ Restart

Spec == Init /\ [][Next]_vars

-----------------------------------------------------------------------------
(* Properties.                                                             *)

\* The field being edited is a line of the editor's: what get_line makes of
\* its array and index is what was typed, whatever was erased and overwritten
\* at the last place; title_edit takes one character less.
Editor == INSTANCE LineEditor WITH
  Chars <- UNION {Keys[f] : f \in Settings},
  open <- (pc = "edit"),
  text <- Text(buf[field]),
  size <- IF target.title THEN LastPlace ELSE Lengths[field],
  replaces <- ~target.title
IsLine == Editor!Spec

\* A setting whose storing the screen did not report as failed is the one the
\* next run starts with (get_info), whatever else was edited in between.
SettingsKept ==
  pc = "menu" =>
    \A f \in loaded : kept[f] # Unknown =>
      IF f = "interval"
      THEN fetch_interval_ms = IF kept[f] = <<>> THEN Default ELSE Number(Numeral(kept[f]))
      ELSE Text(buf[f]) = kept[f]

\* The frames an interval is paced by are "always a rate ceiling"
\* (fetch_pacing.c) for it, by less than a frame.
Paced(ms) ==
  LET paced == Frames(ms) * FrameMs
  IN  ms <= paced /\ paced < ms + FrameMs

\* The interval on the welcome screen is valid, and the one that is paced by.
\* Where nothing is stored the field is empty: the read has cleared it.
ShownIsUsed ==
  target.pacing /\ pc = "menu" =>
    LET shown == Text(buf["interval"])
    IN  shown # <<>> => /\ ValidInterval(shown) /\ Number(Numeral(shown)) = fetch_interval_ms
                        /\ Paced(fetch_interval_ms)

\* What was registered is what the server reads at the commas: the name that was
\* typed, every number, and the capabilities; all of it with its terminator was
\* in the buffer.  A name with a comma in it is read as something else.
FieldsOf(text) ==
  LET read[k \in 0 .. Len(text)] ==
        IF k = 0 THEN << <<>> >>
        ELSE IF text[k] = Comma THEN Append(read[k - 1], <<>>)
        ELSE [read[k - 1] EXCEPT ![Len(read[k - 1])] = Append(@, text[k])]
  IN  read[Len(text)]

RegistrationRead ==
  LET name == Text(buf["name"])
      fields == FieldsOf(Registration)
      n == Len(Numbers)
  IN  pc = "registered" =>
        /\ Len(Registration) + 1 <= CsvSize
        /\ Comma \in Range(name) \/
             /\ fields[1] = name
             /\ \A k \in 1 .. n : Number(fields[k + 1]) = Numbers[k]
             /\ Len(fields) = n + 1 + (IF target.caps = 0 THEN 0 ELSE 1)
             /\ target.caps # 0 =>
                  /\ SubSeq(fields[n + 2], 1, 2) = <<"0", "x">>
                  /\ Value(SubSeq(fields[n + 2], 3, Len(fields[n + 2])), HexDigits) = target.caps
=============================================================================
