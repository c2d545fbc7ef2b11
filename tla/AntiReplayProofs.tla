-------------------------- MODULE AntiReplayProofs --------------------------
(* The anti-replay window lets no sequence number pass twice and drops     *)
(* only stale ones, for every window size and every number of sequence     *)
(* numbers.                                                                *)
EXTENDS AntiReplay, TLAPS

(* Below its modulus a number is its own remainder. *)
LEMMA SmallMod ==
    ASSUME NEW m \in Nat, NEW x \in 0 .. m - 1
    PROVE  x % m = x
  OBVIOUS

(* While the window ends above Window - 2 its beginning does not wrap. *)
LEMMA BegFact ==
    ASSUME end_win_sn \in Sn, end_win_sn >= Window - 1
    PROVE  BegWin = end_win_sn + 1 - Window
  <1>1. end_win_sn + 1 - Window \in 0 .. SnMod - 1 BY AntiReplayAssumption DEF Sn
  <1> QED BY <1>1, SmallMod, AntiReplayAssumption DEF BegWin

(* A shift by less than the window keeps the marks within it, and keeps    *)
(* exactly the ones that are still inside.                                 *)
LEMMA ShiftFact ==
    ASSUME NEW bits \in SUBSET (0 .. Window - 1), NEW d \in Nat
    PROVE  /\ ShiftRight(bits, d) \subseteq 0 .. Window - 1
           /\ \A b \in Nat : b \in ShiftRight(bits, d) <=> b + d \in bits
  BY AntiReplayAssumption DEF ShiftRight

(* The initial window does not wrap: parse_sn_initial sees to it. *)
LEMMA InitInv == ArInit => ArInv
  <1> SUFFICES ASSUME ArInit PROVE ArInv OBVIOUS
  <1> USE AntiReplayAssumption
  <1>1. sn_initial \in Sn /\ sn_initial + Window - 1 \in 0 .. SnMod - 1
    BY DEF ArInit, InitialOk, Sn
  <1>2. end_win_sn = sn_initial + Window - 1 /\ end_win_sn \in Sn
    BY <1>1, SmallMod, Zenon DEF ArInit, Sn
  <1>3. ArTypeOK BY <1>1, <1>2 DEF ArInit, ArTypeOK
  <1>4. NoReplay /\ Marked BY DEF ArInit, NoReplay, Marked
  <1>5. Honest BY DEF ArInit, Honest, Seen
  <1>6. Anchored BY <1>1, <1>2 DEF Anchored, Sn
  <1> QED BY <1>3, <1>4, <1>5, <1>6 DEF ArInv

(* Steps that leave the receiver alone. *)
LEMMA ReceiverUnchanged ==
    ASSUME ArInv, ArTypeOK', UNCHANGED <<sn_initial, end_win_sn, bitmap, passed>>
    PROVE  ArInv'
  BY DEF ArInv, NoReplay, Marked, Honest, Anchored, TooOld, Seen, InWindow, BegWin

LEMMA SendInv == ASSUME ArInv, Send PROVE ArInv'
  <1>1. (current_sn + 1) % SnMod \in Sn
    BY AntiReplayAssumption DEF Sn, ArInv, ArTypeOK
  <1>2. ArTypeOK' BY <1>1 DEF ArInv, ArTypeOK, Send
  <1> QED BY <1>2, ReceiverUnchanged DEF Send

(* A number in the window that is not marked passes and is marked. *)
LEMMA MarkInv ==
    ASSUME ArInv, NEW sn \in Sn, InWindow(sn), ~ Seen(sn),
           bitmap' = bitmap \cup {sn - BegWin},
           passed' = [passed EXCEPT ![sn] = @ + 1],
           UNCHANGED <<end_win_sn, sn_initial, current_sn, sent>>
    PROVE  ArInv'
  <1> USE AntiReplayAssumption
  <1>1. BegWin = end_win_sn + 1 - Window /\ BegWin' = BegWin
    BY BegFact DEF ArInv, ArTypeOK, Anchored, BegWin
  <1>2. sn - BegWin \in 0 .. Window - 1 /\ passed[sn] = 0
    BY <1>1 DEF InWindow, TooOld, Sn, ArInv, ArTypeOK, Marked, Seen
  <1>3. /\ passed'[sn] = 1 /\ passed' \in [Sn -> Nat]
        /\ \A x \in Sn : x # sn => passed'[x] = passed[x]
    BY <1>2 DEF ArInv, ArTypeOK
  <1>4. ArTypeOK' BY <1>2, <1>3, Zenon DEF ArInv, ArTypeOK
  <1>5. NoReplay' BY <1>3 DEF ArInv, NoReplay
  <1>6. Marked'
    BY <1>1, <1>2, <1>3 DEF ArInv, Marked, TooOld, Seen, InWindow
  <1>7. Honest'
    <2> SUFFICES ASSUME NEW x \in Sn, InWindow(x)', Seen(x)' PROVE passed'[x] > 0
      BY DEF Honest
    <2>1. CASE x = sn BY <2>1, <1>3
    <2>2. CASE x # sn
      <3>1. InWindow(x) BY <1>1 DEF InWindow, TooOld
      <3>2. Seen(x) BY <1>1, <2>2 DEF Seen, Sn, ArInv, ArTypeOK
      <3> QED BY <3>1, <3>2, <2>2, <1>3 DEF ArInv, Honest
    <2> QED BY <2>1, <2>2
  <1>8. Anchored'
    BY <1>3 DEF ArInv, Anchored, ArTypeOK
  <1> QED BY <1>4, <1>5, <1>6, <1>7, <1>8 DEF ArInv

(* A number above the window passes, and the window moves up to it. *)
LEMMA SlideInv ==
    ASSUME ArInv, NEW sn \in Sn, sn > end_win_sn,
           bitmap' = Moved(sn - end_win_sn),
           passed' = [passed EXCEPT ![sn] = @ + 1],
           end_win_sn' = sn,
           UNCHANGED <<sn_initial, current_sn, sent>>
    PROVE  ArInv'
  <1> USE AntiReplayAssumption
  <1> DEFINE d == sn - end_win_sn
  <1>1. /\ end_win_sn \in Sn /\ end_win_sn >= Window - 1
        /\ d \in Nat \ {0} /\ sn \in Int /\ end_win_sn \in Int /\ Window \in Int
        /\ bitmap \in SUBSET (0 .. Window - 1)
    BY DEF ArInv, ArTypeOK, Anchored, Sn
  <1>2. BegWin = end_win_sn + 1 - Window BY <1>1, BegFact
  <1>3. BegWin' = sn + 1 - Window
    <2>1. sn + 1 - Window \in 0 .. SnMod - 1 BY <1>1 DEF Sn
    <2> QED BY <2>1, SmallMod DEF BegWin
  <1>4. /\ bitmap' \subseteq 0 .. Window - 1
        /\ Window - 1 \in bitmap'
        /\ \A b \in 0 .. Window - 2 : b \in bitmap' <=> d < Window /\ b + d \in bitmap
    <2>1. CASE d >= Window BY <2>1, <1>1 DEF Moved
    <2>2. CASE d < Window
      <3>1. bitmap' = ShiftRight(bitmap, d) \cup {Window - 1} BY <2>2, <1>1 DEF Moved
      <3>2. /\ ShiftRight(bitmap, d) \subseteq 0 .. Window - 1
            /\ \A b \in Nat : b \in ShiftRight(bitmap, d) <=> b + d \in bitmap
        BY <1>1, ShiftFact, Zenon
      <3>3. Window - 1 \in 0 .. Window - 1 /\ Window - 1 \notin 0 .. Window - 2 OBVIOUS
      <3>4. \A b \in 0 .. Window - 2 : b \in Nat OBVIOUS
      <3> QED BY <3>1, <3>2, <3>3, <3>4, <2>2
    <2> QED BY <2>1, <2>2, <1>1
  <1>5. passed[sn] = 0 BY <1>1 DEF ArInv, ArTypeOK, Marked
  <1>6. /\ passed'[sn] = 1 /\ passed' \in [Sn -> Nat]
        /\ \A x \in Sn : x # sn => passed'[x] = passed[x]
    BY <1>5 DEF ArInv, ArTypeOK
  <1>7. ArTypeOK' BY <1>4, <1>6 DEF ArInv, ArTypeOK
  <1>8. NoReplay' BY <1>6 DEF ArInv, NoReplay
  <1>9. Marked'
    <2> SUFFICES ASSUME NEW x \in Sn, passed'[x] > 0, ~ (x < sn + 1 - Window)
                 PROVE  x <= sn /\ x - (sn + 1 - Window) \in bitmap'
      BY <1>1, <1>3 DEF Marked, TooOld, Seen, Sn
    <2>1. CASE x = sn BY <2>1, <1>1, <1>4
    <2>2. CASE x # sn
      <3>1. x <= end_win_sn /\ (TooOld(x) \/ Seen(x))
        BY <2>2, <1>6 DEF ArInv, Marked
      <3>2. x \in Int BY DEF Sn
      <3>3. x - (end_win_sn + 1 - Window) \in bitmap
        BY <3>1, <3>2, <1>1, <1>2 DEF TooOld, Seen
      <3>4. /\ x - (sn + 1 - Window) \in 0 .. Window - 2
            /\ d < Window
            /\ x - (sn + 1 - Window) + d = x - (end_win_sn + 1 - Window)
        BY <3>1, <3>2, <1>1
      <3> QED BY <3>1, <3>2, <3>3, <3>4, <1>1, <1>4
    <2> QED BY <2>1, <2>2
  <1>10. Honest'
    <2> SUFFICES ASSUME NEW x \in Sn, x >= sn + 1 - Window, x <= sn,
                        x - (sn + 1 - Window) \in bitmap'
                 PROVE  passed'[x] > 0
      BY <1>1, <1>3 DEF Honest, InWindow, TooOld, Seen, Sn
    <2>1. CASE x = sn BY <2>1, <1>6
    <2>2. CASE x # sn
      <3>1. x \in Int BY DEF Sn
      <3>2. x - (sn + 1 - Window) \in 0 .. Window - 2 BY <2>2, <3>1, <1>1
      <3>3. x - (sn + 1 - Window) + d = x - (end_win_sn + 1 - Window) BY <3>1, <1>1
      <3>4. x - (end_win_sn + 1 - Window) \in bitmap BY <3>2, <3>3, <1>4
      <3>5. InWindow(x) /\ Seen(x)
        BY <3>1, <3>4, <1>1, <1>2 DEF InWindow, TooOld, Seen
      <3> QED BY <3>5, <2>2, <1>6 DEF ArInv, Honest
    <2> QED BY <2>1, <2>2
  <1>11. Anchored' BY <1>1, <1>6 DEF Anchored
  <1> QED BY <1>7, <1>8, <1>9, <1>10, <1>11 DEF ArInv

LEMMA NextInv == ASSUME ArInv, [ArNext]_arVars PROVE ArInv'
  <1>1. CASE Send BY <1>1, SendInv
  <1>2. ASSUME NEW sn \in Sn, Receive(sn) PROVE ArInv'
    <2>1. CASE UNCHANGED <<end_win_sn, bitmap, passed>>
      <3>1. ArTypeOK' BY <1>2, <2>1 DEF Receive, ArInv, ArTypeOK
      <3> QED BY <3>1, <1>2, <2>1, ReceiverUnchanged DEF Receive
    <2>2. CASE /\ InWindow(sn) /\ ~ Seen(sn)
               /\ bitmap' = bitmap \cup {sn - BegWin}
               /\ passed' = [passed EXCEPT ![sn] = @ + 1]
               /\ UNCHANGED end_win_sn
      BY <1>2, <2>2, MarkInv, Zenon DEF Receive
    <2>3. CASE /\ sn > end_win_sn
               /\ bitmap' = Moved(sn - end_win_sn)
               /\ passed' = [passed EXCEPT ![sn] = @ + 1]
               /\ end_win_sn' = sn
      BY <1>2, <2>3, SlideInv, Zenon DEF Receive
    <2> QED BY <1>2, <2>1, <2>2, <2>3 DEF Receive, anti_replay
  <1>3. CASE UNCHANGED arVars
    <2>1. ArTypeOK' BY <1>3 DEF arVars, ArInv, ArTypeOK
    <2> QED BY <1>3, <2>1, ReceiverUnchanged DEF arVars
  <1> QED BY <1>1, <1>2, <1>3 DEF ArNext

(* The inductive invariant: the bitmap marks exactly the numbers of the    *)
(* window that passed anti_replay, and nothing above the window passed.    *)
THEOREM WindowInvariant == ArSpec => []ArInv
  BY InitInv, NextInv, PTL DEF ArSpec

(* The state of the sender and of the window keeps its type; no bit beyond *)
(* the window is ever set.                                                 *)
THEOREM WindowTypeCorrect == ArSpec => []ArTypeOK
  <1>1. ArInv => ArTypeOK BY DEF ArInv
  <1> QED BY <1>1, WindowInvariant, PTL

(* No sequence number passes anti_replay twice, whatever the network       *)
(* repeats.                                                                *)
THEOREM NoReplayTheorem == ArSpec => []NoReplay
  <1>1. ArInv => NoReplay BY DEF ArInv
  <1> QED BY <1>1, WindowInvariant, PTL

(* anti_replay drops a packet only if its number passed before or is a     *)
(* whole window behind one that passed.                                    *)
THEOREM OnlyStaleDroppedTheorem == ArSpec => []OnlyStaleDropped
  <1>1. ArInv => OnlyStaleDropped
    <2> SUFFICES ASSUME ArInv, NEW sn \in Sn, Drop(sn)
                 PROVE  passed[sn] > 0 \/ LeftBehind(sn)
      BY DEF OnlyStaleDropped
    <2>1. CASE InWindow(sn) /\ Seen(sn) BY <2>1 DEF ArInv, Honest
    <2>2. CASE TooOld(sn)
      <3>1. /\ end_win_sn \in Sn
            /\ sn < end_win_sn + 1 - Window
        BY <2>2, BegFact DEF TooOld, ArInv, ArTypeOK, Anchored
      <3>2. CASE end_win_sn = sn_initial + Window - 1
        BY <3>1, <3>2, AntiReplayAssumption DEF LeftBehind, Sn, ArInv, ArTypeOK
      <3>3. CASE passed[end_win_sn] > 0
        BY <3>1, <3>3, AntiReplayAssumption DEF LeftBehind, Sn
      <3> QED BY <3>2, <3>3 DEF ArInv, Anchored
    <2> QED BY <2>1, <2>2 DEF Drop
  <1> QED BY <1>1, WindowInvariant, PTL
=============================================================================
