----------------------------- MODULE AppSettings -----------------------------
(***************************************************************************)
(* The application settings context (AppSettingProvider in                 *)
(* shared/contexts/app.tsx) over the Redux store it reads.                 *)
(*                                                                         *)
(* - setPresentationMode(false) dispatches the disable at once;            *)
(*   setPresentationMode(true) schedules the enable and its notification   *)
(*   PRESENTATION_MODE_ANIMATION_DELAY later.                              *)
(* - The other setters each dispatch one action; they are one action here *)
(*   over one abstract setting.                                            *)
(* - The service-worker registration is a module variable assigned when a  *)
(*   dynamic import resolves; an effect keyed on it copies it into the     *)
(*   store, and effects run only when the provider renders.  The selector  *)
(*   returns a fresh object, so every dispatch re-renders the provider.    *)
(***************************************************************************)
EXTENDS Naturals

CONSTANTS
    SettingValues,   \* values the plain setters dispatch
    NoRegistration,  \* the module variable before the import resolves
    Registration,    \* the value registerServiceWorker() returns
    NotMounted,      \* the effect's dependency before the first render
    MaxEnables       \* bound on the setPresentationMode(true) calls

ASSUME AppSettingsAssumption ==
    /\ MaxEnables \in Nat
    /\ NoRegistration # Registration
    /\ NotMounted \notin {NoRegistration, Registration}

Registrations == {NoRegistration, Registration}

VARIABLES
    presentationMode,    \* store: app.ephemeral presentation mode
    setting,             \* store: the settings the plain setters write
    storedRegistration,  \* store: the worker registration, as last dispatched
    pendingEnables,      \* delayed enables scheduled and not yet run
    notifications,       \* presentation-mode notifications dispatched
    workerRegistration,  \* the module variable
    effectDep,           \* the dependency value the effect last ran with
    renderDue            \* a dispatch happened that the provider has not rendered

vars == <<presentationMode, setting, storedRegistration, pendingEnables,
          notifications, workerRegistration, effectDep, renderDue>>

TypeOK ==
    /\ presentationMode \in BOOLEAN
    /\ setting \in SettingValues
    /\ storedRegistration \in Registrations \cup {NotMounted}
    /\ pendingEnables \in 0..MaxEnables
    /\ notifications \in 0..MaxEnables
    /\ workerRegistration \in Registrations
    /\ effectDep \in Registrations \cup {NotMounted}
    /\ renderDue \in BOOLEAN

\* The store starts from any persisted setting; nothing is mounted yet.
Init ==
    /\ presentationMode = FALSE
    /\ setting \in SettingValues
    /\ storedRegistration = NotMounted
    /\ pendingEnables = 0
    /\ notifications = 0
    /\ workerRegistration = NoRegistration
    /\ effectDep = NotMounted
    /\ renderDue = FALSE

\* The dynamic import of the service worker resolves and registers it.
ImportResolved ==
    /\ workerRegistration = NoRegistration
    /\ workerRegistration' = Registration
    /\ UNCHANGED <<presentationMode, setting, storedRegistration, pendingEnables,
                   notifications, effectDep, renderDue>>

\* A render of the provider: React runs the effect when its dependency
\* differs from the last run (always on the first), and the effect's
\* dispatch asks for another render.
Render ==
    /\ effectDep = NotMounted \/ renderDue
    /\ IF workerRegistration # effectDep
         THEN /\ storedRegistration' = workerRegistration
              /\ effectDep' = workerRegistration
              /\ renderDue' = TRUE
         ELSE /\ renderDue' = FALSE
              /\ UNCHANGED <<storedRegistration, effectDep>>
    /\ UNCHANGED <<presentationMode, setting, pendingEnables, notifications,
                   workerRegistration>>

\* setPresentationMode(active), reached through the mounted context.
SetPresentationMode(active) ==
    /\ effectDep # NotMounted
    /\ IF active
         THEN /\ pendingEnables + notifications < MaxEnables
              /\ pendingEnables' = pendingEnables + 1
              /\ UNCHANGED <<presentationMode, renderDue>>
         ELSE /\ presentationMode' = FALSE
              /\ renderDue' = TRUE
              /\ UNCHANGED pendingEnables
    /\ UNCHANGED <<setting, storedRegistration, notifications,
                   workerRegistration, effectDep>>

\* A delayed callback run without an enable scheduled (one timer firing
\* twice).
PresentationTimerUnscheduled ==
    /\ pendingEnables' = pendingEnables - 1
    /\ presentationMode' = TRUE
    /\ notifications' = notifications + 1
    /\ renderDue' = TRUE
    /\ UNCHANGED <<setting, storedRegistration, workerRegistration, effectDep>>

\* The delayed callback: enablePresentationMode, then the notification.
PresentationTimer ==
    /\ pendingEnables > 0
    /\ pendingEnables' = pendingEnables - 1
    /\ presentationMode' = TRUE
    /\ notifications' = notifications + 1
    /\ renderDue' = TRUE
    /\ UNCHANGED <<setting, storedRegistration, workerRegistration, effectDep>>

\* setTimeZone, setTheme, setScriptQueryBuilder, setNavbarMode, setFlowsCTA
\* and setSubscriptionsCertificateInterest: one dispatch each.
SetSetting(v) ==
    /\ effectDep # NotMounted
    /\ setting' = v
    /\ renderDue' = TRUE
    /\ UNCHANGED <<presentationMode, storedRegistration, pendingEnables,
                   notifications, workerRegistration, effectDep>>

Next ==
    \/ ImportResolved
    \/ Render
    \/ \E active \in BOOLEAN : SetPresentationMode(active)
    \/ PresentationTimer
    \/ \E v \in SettingValues : SetSetting(v)

\* The browser loads the chunk, runs due timers and React renders after a
\* dispatch; the user owes nothing.
Fairness ==
    /\ WF_vars(ImportResolved)
    /\ WF_vars(Render)
    /\ WF_vars(PresentationTimer)

Spec == Init /\ [][Next]_vars /\ Fairness

-----------------------------------------------------------------------------
\* Once the dynamic import has registered the service worker, the store
\* eventually holds the registration: the effect keyed on
\* [workerRegistration] is there to copy each new value into the store.
\* The module variable is not React state, so nothing re-renders the
\* provider when it changes.
RegistrationReachesStore ==
    workerRegistration = Registration ~> storedRegistration = Registration
=============================================================================
