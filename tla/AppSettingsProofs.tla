------------------------- MODULE AppSettingsProofs -------------------------
(***************************************************************************)
(* Proof that the settings provider's state stays well typed for every     *)
(* bound on the enables requested.                                         *)
(***************************************************************************)
EXTENDS AppSettings, TLAPS

\* TypeOK is not inductive alone: an enable is requested only while the
\* enables scheduled and the notifications already shown stay below the
\* bound, and the timer moves one from the first count to the second.
Inv ==
    /\ TypeOK
    /\ pendingEnables + notifications <= MaxEnables

LEMMA InitInv == Init => Inv
  <1> SUFFICES ASSUME Init PROVE Inv
    OBVIOUS
  <1>1. MaxEnables \in Nat
    BY AppSettingsAssumption
  <1>2. /\ storedRegistration \in Registrations \cup {NotMounted}
        /\ workerRegistration \in Registrations
        /\ effectDep \in Registrations \cup {NotMounted}
    BY DEF Init, Registrations
  <1>3. /\ presentationMode \in BOOLEAN /\ renderDue \in BOOLEAN
        /\ setting \in SettingValues
    BY DEF Init
  <1>4. /\ pendingEnables \in 0..MaxEnables /\ notifications \in 0..MaxEnables
        /\ pendingEnables + notifications <= MaxEnables
    BY <1>1 DEF Init
  <1>5. QED
    BY <1>2, <1>3, <1>4 DEF Inv, TypeOK

LEMMA NextInv == Inv /\ [Next]_vars => Inv'
  <1> SUFFICES ASSUME Inv, [Next]_vars PROVE Inv'
    OBVIOUS
  <1>0. MaxEnables \in Nat
    BY AppSettingsAssumption
  <1>1. CASE ImportResolved
    BY <1>1 DEF ImportResolved, Inv, TypeOK, Registrations
  <1>2. CASE Render
    BY <1>2 DEF Render, Inv, TypeOK, Registrations
  <1>3. CASE \E active \in BOOLEAN : SetPresentationMode(active)
    <2>1. PICK active \in BOOLEAN : SetPresentationMode(active)
      BY <1>3
    <2>2. CASE active
      BY <1>0, <2>1, <2>2 DEF SetPresentationMode, Inv, TypeOK
    <2>3. CASE ~active
      BY <1>0, <2>1, <2>3 DEF SetPresentationMode, Inv, TypeOK
    <2>4. QED
      BY <2>2, <2>3
  <1>4. CASE PresentationTimer
    BY <1>0, <1>4 DEF PresentationTimer, Inv, TypeOK
  <1>5. CASE \E v \in SettingValues : SetSetting(v)
    BY <1>5 DEF SetSetting, Inv, TypeOK
  <1>6. CASE UNCHANGED vars
    BY <1>6 DEF vars, Inv, TypeOK
  <1>7. QED
    BY <1>1, <1>2, <1>3, <1>4, <1>5, <1>6 DEF Next

\* Whatever setters, renders, timers and the import do, the provider's
\* state is well typed and at most MaxEnables enables are ever pending.
THEOREM AppSettingsTypeCorrect == Spec => []TypeOK
  BY InitInv, NextInv, PTL DEF Spec, Inv
=============================================================================
