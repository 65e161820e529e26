\* App settings: two setting values, up to three delayed enables.
CONSTANTS
    SettingValues = {s1, s2}
    NoRegistration = NoRegistration
    Registration = Registration
    NotMounted = NotMounted
    MaxEnables = 3
SPECIFICATION Spec
INVARIANT TypeOK
