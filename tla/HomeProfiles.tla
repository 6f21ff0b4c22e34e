----------------------------- MODULE HomeProfiles -----------------------------
(***************************************************************************)
(* The destination profiles of the Windows home client (windows/home/      *)
(* main.go): the list that the window edits, the fields of the profile     *)
(* that is selected, the config that the program works with, which repeats *)
(* the settings of the selected profile, and the file.  All the handlers   *)
(* run on the UI thread.                                                   *)
(*                                                                         *)
(* A profile's relay list is one value.  A proof is the room it was        *)
(* computed for.  The Windows user and the SMB alias go the way of the     *)
(* proxy.  A name is what was typed and a number that makes it unique.     *)
(***************************************************************************)
EXTENDS Naturals, Sequences, FiniteSets

CONSTANTS Typed,             \* names a user types
          Relays, Rooms, Proxies,
          None,              \* no room, no proof, no file
          Default,           \* the profile of a new destination
          WorkProfile,       \* of the work service on this computer, or None
          MaxEdits, MaxDestinations    \* bounds

Name == Typed \X (1..MaxDestinations)
Profile == [name : Name, relays : Relays, room : Rooms \cup {None},
            proxy : Proxies, proof : Rooms \cup {None}]
Fields == [relays : Relays, room : Rooms \cup {None}, proxy : Proxies,
           password : BOOLEAN, clear : BOOLEAN]
DefaultAssumption ==
    MaxDestinations \in Nat /\ Default \in Profile /\ Default.room # None /\ Default.proof = None
\* Its proof is computed for its own room.
WorkProfileAssumption ==
    /\ WorkProfile \in Profile \cup {None}
    /\ WorkProfile # None => WorkProfile.proof \in {None, WorkProfile.room}

VARIABLES
    destinations, selectedDestination,   \* the window's list
    fields,                              \* what stands in its fields
    cfg,                                 \* a.cfg
    settings,                            \* the file
    edits

vars == <<destinations, selectedDestination, fields, cfg, settings, edits>>

FieldsOf(p) == [relays |-> p.relays, room |-> p.room, proxy |-> p.proxy,
                password |-> FALSE, clear |-> FALSE]
\* A config whose top level repeats profile i.
ConfigOf(ds, i) == [destinations |-> ds, selected |-> ds[i].name, relays |-> ds[i].relays,
                    room |-> ds[i].room, proxy |-> ds[i].proxy, proof |-> ds[i].proof]

-----------------------------------------------------------------------------
(* loadConfig, importInstalledWorkProfile, selectDestinationConfig.        *)

Position(ds, name) ==
    IF \E i \in 1..Len(ds) : ds[i].name = name THEN CHOOSE i \in 1..Len(ds) : ds[i].name = name ELSE 1

\* ensureDestinations: the top level overrides the profile it names.
FirstOverridden(c) == 1
Overridden(c) == Position(c.destinations, c.selected)
EnsureDestinations(c) ==
    LET i == Overridden(c)
        p == c.destinations[i]
        proof == IF p.proof = None THEN c.proof ELSE p.proof
        ds == [c.destinations EXCEPT ![i] = [p EXCEPT !.relays = c.relays, !.room = c.room, !.proof = proof]] IN
      [c EXCEPT !.destinations = ds, !.selected = ds[i].name, !.proxy = ds[i].proxy]

UniqueName(ds, typed, ignored) ==
    LET taken == {ds[i].name : i \in (1..Len(ds)) \ {ignored}} IN
      <<typed, CHOOSE n \in 1..MaxDestinations :
                 <<typed, n>> \notin taken /\ \A k \in 1..n - 1 : <<typed, k>> \in taken>>

\* The profile of the work service is added once.
Imports(c) == /\ WorkProfile # None /\ Len(c.destinations) < MaxDestinations
              /\ \A i \in 1..Len(c.destinations) :
                    LET p == c.destinations[i] IN
                      ~(p.room = WorkProfile.room /\ p.proxy = WorkProfile.proxy /\ p.relays = WorkProfile.relays)
Imported(c) == IF ~Imports(c) THEN c
               ELSE LET ds == c.destinations
                        name == UniqueName(ds, WorkProfile.name[1], 0) IN
                      [c EXCEPT !.destinations = Append(ds, [WorkProfile EXCEPT !.name = name])]

\* -destination: the proxy stays that of the profile that was selected.
Chosen(c, i) == LET p == c.destinations[i] IN
    [c EXCEPT !.selected = p.name, !.proof = p.proof, !.relays = p.relays, !.room = p.room]

Loaded(file) == IF file = None THEN ConfigOf(<<Default>>, 1) ELSE EnsureDestinations(file)

\* The program starts, for the profile that was selected or for another one.
Shows(c) ==
    LET i == Position(c.destinations, c.selected) IN
      /\ destinations' = c.destinations /\ selectedDestination' = i
      /\ fields' = FieldsOf(c.destinations[i])
Main(i) ==
    /\ edits < MaxEdits /\ edits' = edits + 1
    /\ LET c == Imported(Loaded(settings)) IN
         /\ i \in 0..Len(c.destinations)
         /\ cfg' = IF i = 0 THEN c ELSE Chosen(c, i)
         /\ Shows(cfg')
         /\ settings' = IF Imports(Loaded(settings)) THEN c ELSE settings

Init ==
    /\ settings = None /\ edits = 0
    /\ cfg = Loaded(None) /\ destinations = cfg.destinations /\ selectedDestination = 1
    /\ fields = FieldsOf(Default)

-----------------------------------------------------------------------------
(* The editor.                                                             *)

Edit == edits < MaxEdits /\ edits' = edits + 1

Type ==
    /\ Edit
    /\ \/ \E r \in Relays : fields' = [fields EXCEPT !.relays = r]
       \/ \E r \in Rooms \cup {None} : fields' = [fields EXCEPT !.room = r]
       \/ \E p \in Proxies : fields' = [fields EXCEPT !.proxy = p]
       \/ fields' = [fields EXCEPT !.password = ~@]
       \/ fields' = [fields EXCEPT !.clear = ~@]
    /\ fields' # fields
    /\ UNCHANGED <<destinations, selectedDestination, cfg, settings>>

\* commitDestinationProfile changes the profile before it finds a fault in it.
KeptProof(p) == p.proof
ProofAfter(p) == IF fields.room = p.room THEN p.proof ELSE None
Committed ==
    LET p == destinations[selectedDestination] IN
      [destinations EXCEPT ![selectedDestination] =
          [p EXCEPT !.relays = fields.relays, !.room = fields.room, !.proxy = fields.proxy,
                    !.proof = ProofAfter(p)]]
Commits == fields.room # None

\* The write of the file may fail.
Saves(c) == cfg' = c /\ settings' \in {c, settings}

\* A profile that is selected is committed from its own fields, and saved.
Persists(ds, i, f) ==
    /\ destinations' = ds /\ selectedDestination' = i /\ fields' = f
    /\ Saves(ConfigOf(ds, i))

FailsToCommit ==
    /\ Edit /\ ~Commits
    /\ destinations' = Committed
    /\ UNCHANGED <<selectedDestination, fields, cfg, settings>>

DestinationSelectionChanged(i) ==
    /\ Edit /\ Commits /\ i \in 1..Len(destinations) /\ i # selectedDestination
    /\ Persists(Committed, i, FieldsOf(Committed[i]))
AddDestination(typed) ==
    /\ Edit /\ Commits /\ Len(destinations) < MaxDestinations
    /\ LET ds == Append(Committed, [Default EXCEPT !.name = UniqueName(Committed, typed, 0)]) IN
         Persists(ds, Len(ds), FieldsOf(Default))
\* What was typed in the fields is lost, the relay list's changes are not.
RenameDestination(typed) ==
    /\ Edit
    /\ LET i == selectedDestination
           p == [destinations[i] EXCEPT !.name = UniqueName(destinations, typed, i)]
           f == [FieldsOf(p) EXCEPT !.relays = fields.relays]
           ds == [destinations EXCEPT ![i] = [p EXCEPT !.relays = fields.relays]] IN
         \/ p.room # None /\ Persists(ds, i, f)
         \/ /\ p.room = None
            /\ destinations' = ds /\ fields' = f /\ UNCHANGED <<selectedDestination, cfg, settings>>
DeleteDestination ==
    /\ Edit /\ Len(destinations) > 1
    /\ LET i == selectedDestination
           ds == SubSeq(destinations, 1, i - 1) \o SubSeq(destinations, i + 1, Len(destinations))
           next == IF i > Len(ds) THEN Len(ds) ELSE i IN
         Persists(ds, next, FieldsOf(ds[next]))

\* saveFromUI.
ProofSaved(p) == CASE fields.clear -> None
                   [] ~fields.clear /\ fields.password -> fields.room
                   [] OTHER -> p.proof
SaveFromUI ==
    /\ Edit /\ Commits
    /\ LET i == selectedDestination
           p == [Committed[i] EXCEPT !.proof = ProofSaved(Committed[i])]
           ds == [Committed EXCEPT ![i] = p] IN
         Persists(ds, i, FieldsOf(p))

Next == \/ Type \/ FailsToCommit \/ DeleteDestination \/ SaveFromUI
        \/ \E i \in 1..MaxDestinations : DestinationSelectionChanged(i)
        \/ \E i \in 0..MaxDestinations : Main(i)
        \/ \E typed \in Typed : AddDestination(typed) \/ RenameDestination(typed)
Spec == Init /\ [][Next]_vars

-----------------------------------------------------------------------------
(* Properties.                                                             *)

ProfilesTypeOK ==
    /\ destinations \in Seq(Profile) /\ Len(destinations) \in 1..MaxDestinations
    /\ selectedDestination \in 1..Len(destinations) /\ fields \in Fields

\* What the editor writes is what the next start loads: names are one profile's,
\* the top level never overrides another profile, and no profile has the proof of
\* a room it has left.
SettingsSurviveRestart ==
    settings # None =>
        /\ Loaded(settings) = settings
        /\ \A i, j \in 1..Len(settings.destinations) :
              settings.destinations[i].name = settings.destinations[j].name => i = j
        /\ \A i \in 1..Len(settings.destinations) :
              settings.destinations[i].proof \in {None, settings.destinations[i].room}
=============================================================================
