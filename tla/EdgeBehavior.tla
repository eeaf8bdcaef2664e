---------------------------- MODULE EdgeBehavior ----------------------------
(***************************************************************************)
(* EdgeBehavior (edge/behavior.py): from the persons detected in a frame   *)
(* to a risk per track and to the suspicious episodes that become clips.   *)
(* One camera, whose analysed frames come one after the other.             *)
(*   - A spot stands for the boxes that match one another: a person in a   *)
(*     spot is matched with the track there (_match), or starts one.       *)
(*   - Of a person the model sees what the keypoint and zone tests yield:  *)
(*     wrist on an item, wrist at the hip, feet in a shelf or exit zone.   *)
(*   - Times are the ages of the code's time stamps, in units that divide  *)
(*     the configured durations; above Cap all ages are alike.             *)
(***************************************************************************)
EXTENDS Integers, FiniteSets

CONSTANTS
    Spot,           \* places a person may be in
    Observations,   \* bound: what the detector may see of a person
    Gaps,           \* bound: times between two analysed frames
    Absent,           \* no track, no time stamp
    Decay(_, _),    \* raw risk after some time without banking, rounded down
    Weight,         \* w_* of each behaviour
    MinDur,         \* mindur_* of each behaviour
    Interval,       \* interval_* of each behaviour
    HoldLatch,      \* hold_latch_sec
    DropAfter,      \* drop_after_sec
    PostQuiet,      \* post_quiet_sec
    OpenRisk,       \* open_risk
    CloseRisk,      \* close_risk
    ShelfThreshold, \* repeated_shelf_threshold
    RequireHolding, \* require_holding
    Cap             \* bound: the highest age that is counted

MaxRisk == 100
Key == {"item_pickup", "wrist_to_torso", "conceal", "repeated_shelf_visit",
        "exit_after_concealment"}

\* What a frame shows of a person's hands: a wrist within reach of an item that is not the
\* person's own, a wrist near a hip or the estimated waist; neither without keypoints.
Hands == {"hold", "pocket"}

\* The zones that hold the person's foot point; a malformed polygon is no zone.
ZonesAt == {"shelf", "exit"}

Observation == [Hands \cup ZonesAt -> BOOLEAN]

ASSUME CountAssumption == {Cap, ShelfThreshold} \subseteq Nat
ASSUME InputAssumption == Observations \subseteq Observation /\ Gaps \subseteq 1 .. Cap
ASSUME TimingAssumption ==
    /\ {Weight, MinDur, Interval} \subseteq [Key -> Nat]
    /\ {HoldLatch, DropAfter, PostQuiet} \subseteq 0 .. Cap - 1
    /\ \A k \in Key : {MinDur[k], Interval[k]} \subseteq 0 .. Cap - 1
ASSUME RiskAssumption ==
    /\ 0 < CloseRisk /\ CloseRisk <= OpenRisk /\ OpenRisk <= MaxRisk
    /\ \A r \in 0 .. MaxRisk, dt \in 0 .. Cap : Decay(r, dt) \in 0 .. r

VARIABLES
    tracks, \* _tracks, by the spot of their last box
    gap,    \* the time since the frame before
    seen,   \* the persons in the last frame
    owed,   \* history: 1 if a risk of at least open_risk is in no episode handed over yet
    banked, \* history: how often each zone criterion has banked for the track
    touch   \* history: the age of the track's last item contact or move to the pocket

ebVars == <<tracks, gap, seen, owed, banked, touch>>

Age  == 0 .. Cap
Zone == {"repeated_shelf_visit", "exit_after_concealment"}

Track == [raw : 0 .. MaxRisk, suspicious : BOOLEAN, unseen : Age, quiet : Age,
          concealed : BOOLEAN, inShelf : BOOLEAN, visits : 0 .. ShelfThreshold,
          scored : SUBSET Zone, since : [Key -> Age \cup {Absent}], bank : [Key -> Age \cup {Absent}],
          hold : Age, nearHip : BOOLEAN \cup {Absent}, gesture : Age]

ASSUME AbsentAssumption == Absent \notin Int /\ Absent \notin BOOLEAN /\ Absent \notin Track

EBTypeOK ==
    /\ \A s \in Spot : tracks[s] # Absent => tracks[s] \in Track
    /\ gap \in {0} \cup Gaps
    /\ DOMAIN seen \subseteq Spot /\ \A s \in DOMAIN seen : seen[s] \in Observations
    /\ owed \in [Spot -> {0, 1}]
    /\ banked \in [Spot -> [Zone -> 0 .. 2]]
    /\ touch \in [Spot -> Age \cup {Absent}]

EBInit ==
    /\ tracks = [s \in Spot |-> Absent]
    /\ gap = 0
    /\ seen = [s \in {} |-> Absent]
    /\ owed = [s \in Spot |-> 0]
    /\ banked = [s \in Spot |-> [k \in Zone |-> 0]]
    /\ touch = [s \in Spot |-> Absent]

Older(age, dt) == IF age = Absent THEN Absent ELSE IF age + dt < Cap THEN age + dt ELSE Cap

NewTrack == [raw |-> 0, suspicious |-> FALSE, unseen |-> 0, quiet |-> 0,
             concealed |-> FALSE, inShelf |-> FALSE, visits |-> 0, scored |-> {},
             since |-> [k \in Key |-> Absent], bank |-> [k \in Key |-> Absent],
             hold |-> Cap, nearHip |-> Absent, gesture |-> Cap]

\* The same track dt later: every time stamp is older.
Aged(tr, dt) ==
    [tr EXCEPT !.unseen = Older(@, dt), !.quiet = IF tr.suspicious THEN Older(@, dt) ELSE 0,
               !.hold = Older(@, dt), !.gesture = Older(@, dt),
               !.since = [k \in Key |-> Older(@[k], dt)],
               !.bank = [k \in Key |-> Older(@[k], dt)]]

(***************************************************************************)
(* What one person contributes                                             *)
(***************************************************************************)

Holding(tr, o) == o.hold \/ tr.hold <= HoldLatch

\* Conceal takes a held item, or a recent move of the hand to the pocket.
Concealing(tr, o) ==
    o.pocket /\ (Holding(tr, o) \/ (tr.gesture <= HoldLatch /\ ~RequireHolding))

\* _frame_signal: the behaviours with a score.
HandSignal(tr, o) ==
    {k \in Key : \/ k = "item_pickup" /\ Holding(tr, o)
                 \/ k = "conceal" /\ Concealing(tr, o)
                 \/ k = "wrist_to_torso" /\ o.pocket /\ ~Concealing(tr, o)}

\* The first frame only seeds nearHip: a hand that is already there has not moved.
Moved(tr, o) == o.pocket /\ tr.nearHip = FALSE

\* The latches after the frame.
Latched(tr, o) ==
    [tr EXCEPT !.gesture = IF Moved(tr, o) THEN 0 ELSE @,
               !.nearHip = o.pocket,
               !.hold = IF o.hold \/ Concealing(tr, o) THEN 0 ELSE @,
               !.concealed = @ \/ o.pocket]

\* Where the person stands, and how often at a shelf so far.
Visited(tr, o) ==
    [tr EXCEPT !.visits = IF o.shelf /\ ~tr.inShelf /\ @ < ShelfThreshold THEN @ + 1 ELSE @,
               !.inShelf = o.shelf]

\* _zone_signal: each criterion until it has banked once.
ZoneSignal(tr, o) ==
    {k \in Zone \ tr.scored :
        \/ k = "repeated_shelf_visit" /\ o.shelf /\ tr.visits >= ShelfThreshold
        \/ k = "exit_after_concealment" /\ o.exit /\ tr.concealed}

\* _apply_timing_gate: how long each behaviour has been active ...
Since(tr, keys) ==
    [k \in Key |-> IF k \notin keys THEN Absent ELSE IF tr.since[k] = Absent THEN 0 ELSE tr.since[k]]

\* ... and which of them bank now.
Gated(tr, keys) ==
    {k \in keys : /\ Since(tr, keys)[k] >= MinDur[k]
                  /\ tr.bank[k] = Absent \/ tr.bank[k] >= Interval[k]}

\* Mutant of Scored: a criterion is used up when it shows, not when it banks.
ScoredEarly(tr, keys, gated) == tr.scored \cup (keys \cap Zone)

\* The criteria that have banked.
Scored(tr, keys, gated) == tr.scored \cup (gated \cap Zone)

\* What the gated behaviours bank together.
Sum(keys) ==
    LET bank(k) == IF k \in keys THEN Weight[k] ELSE 0
    IN  bank("item_pickup") + bank("wrist_to_torso") + bank("conceal")
            + bank("repeated_shelf_visit") + bank("exit_after_concealment")

\* The risk decays over the time since the track was seen last, and gets what has banked.
Risk(tr, gated) ==
    LET risk == Decay(tr.raw, tr.unseen) + Sum(gated)
    IN  IF risk < MaxRisk THEN risk ELSE MaxRisk

(***************************************************************************)
(* Episodes                                                                *)
(***************************************************************************)

\* What a call makes of a track, and how many episodes it returns for the recorder to cut.
Keep(tr) == [track |-> tr, episodes |-> 0]

\* _close_episode: back to normal, with the episode.
Close(tr) == [track |-> [tr EXCEPT !.suspicious = FALSE, !.quiet = 0], episodes |-> 1]

\* The time since the episode was last active.
Quiet(tr) == IF tr.raw >= CloseRisk THEN 0 ELSE tr.quiet

\* _advance_episode, with tr.raw the new risk.
Advanced(tr) ==
    IF ~tr.suspicious
    THEN Keep([tr EXCEPT !.suspicious = tr.raw >= OpenRisk, !.quiet = 0])
    ELSE IF Quiet(tr) >= PostQuiet THEN Close(tr) ELSE Keep([tr EXCEPT !.quiet = Quiet(tr)])

\* update for one person, o, whose track, or new track, is tr.
Updated(tr, o) ==
    LET at    == Visited(Latched(tr, o), o)
        keys  == HandSignal(tr, o) \cup ZoneSignal(at, o)
        gated == Gated(tr, keys)
    IN  Advanced([at EXCEPT !.since = Since(tr, keys),
                            !.bank = [k \in Key |-> IF k \in gated THEN 0
                                                    ELSE IF k \in keys THEN @[k] ELSE Absent],
                            !.scored = Scored(tr, keys, gated),
                            !.raw = Risk(tr, gated),
                            !.unseen = 0])

\* The track a person in s meets.
Met(s, dt) == IF tracks[s] = Absent THEN NewTrack ELSE Aged(tracks[s], dt)

\* What has become of the track in s when all persons have been seen to.
After(s, dt, persons) ==
    IF s \in DOMAIN persons THEN Updated(Met(s, dt), persons[s])
    ELSE Keep(IF tracks[s] = Absent THEN Absent ELSE Aged(tracks[s], dt))

Stale(tr) == tr # Absent /\ tr.unseen > DropAfter

\* Mutant of DropStale: a track that is dropped takes its episode with it.
DropSilently(tr) == IF Stale(tr) THEN Keep(Absent) ELSE Keep(tr)

\* _drop_stale: a track unseen for too long goes, and ends its episode if it has one open.
DropStale(tr) ==
    IF ~Stale(tr) THEN Keep(tr)
    ELSE IF tr.suspicious THEN [Close(tr) EXCEPT !.track = Absent] ELSE Keep(Absent)

\* The frame showed a risk in s that calls for a clip.
High(s, dt, persons) == s \in DOMAIN persons /\ After(s, dt, persons).track.raw >= OpenRisk

\* update: the persons of a frame that comes dt after the one before, then _drop_stale.
Frame(dt, persons) ==
    /\ tracks' = [s \in Spot |-> DropStale(After(s, dt, persons).track).track]
    /\ gap' = dt
    /\ seen' = persons
    /\ owed' = [s \in Spot |->
                   (IF High(s, dt, persons) THEN 1 ELSE owed[s])
                       - After(s, dt, persons).episodes
                       - DropStale(After(s, dt, persons).track).episodes]
    /\ banked' = [s \in Spot |-> [k \in Zone |->
                    IF tracks'[s] = Absent THEN 0
                    ELSE IF tracks'[s].bank[k] = 0 /\ s \in DOMAIN persons /\ banked[s][k] < 2
                         THEN banked[s][k] + 1 ELSE banked[s][k]]]
    /\ touch' = [s \in Spot |->
                    IF tracks'[s] = Absent THEN Absent
                    ELSE IF s \in DOMAIN persons
                            /\ (persons[s].hold \/ Moved(Met(s, dt), persons[s]))
                         THEN 0 ELSE Older(touch[s], dt)]

EBNext ==
    \E dt \in Gaps, present \in SUBSET Spot :
        \E persons \in [present -> Observations] : Frame(dt, persons)

EBSpec == EBInit /\ [][EBNext]_ebVars

(***************************************************************************)
(* Properties                                                              *)
(***************************************************************************)

\* No suspicious moment is lost, and none is reported twice: a risk that reached open_risk is in
\* an episode that is still open, or in one that was returned for the recorder to cut, once, when
\* it went quiet or when its track was dropped.
EpisodesAccounted ==
    \A s \in Spot : owed[s] = IF tracks[s] # Absent /\ tracks[s].suspicious THEN 1 ELSE 0

\* behavior.py 350-352: "a non-zero mindur_* delays - rather than permanently kills - the bank":
\* a criterion that shows goes on showing while its person stays in the zone, until
\* it has lasted for as long as the gate asks and banks.
StaysIn(o, k) == IF k = "exit_after_concealment" THEN o.exit ELSE o.shelf
ZonesBankInTime ==
    [][\A s \in DOMAIN seen \cap DOMAIN seen', k \in Zone :
          tracks[s].since[k] # Absent /\ banked[s][k] = 0 /\ StaysIn(seen'[s], k) =>
              IF tracks[s].since[k] + gap' >= MinDur[k]
              THEN banked'[s][k] = 1 ELSE tracks'[s].since[k] # Absent]_ebVars

\* behavior.py 107-108: conceal "stays armed for hold_latch_sec" after a move to the
\* pocket: it banks only with an item contact or a move that is as recent as that.
ConcealNeedsEvidence ==
    \A s \in DOMAIN seen : tracks[s].since["conceal"] # Absent =>
        touch[s] # Absent /\ touch[s] <= HoldLatch

\* behavior.py 563: tracks "unseen too long" are dropped, so no track goes on after more than
\* drop_after_sec without its person.
NoGhosts ==
    [][\A s \in Spot : tracks[s] # Absent /\ tracks'[s] # Absent
                           => Older(tracks[s].unseen, gap') <= DropAfter]_ebVars
=============================================================================
