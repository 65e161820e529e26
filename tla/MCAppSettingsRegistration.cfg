\* The registration under the instance of app_settings.
CONSTANTS
    SettingValues = {s1, s2}
    NoRegistration = NoRegistration
    Registration = Registration
    NotMounted = NotMounted
    MaxEnables = 3
SPECIFICATION Spec
PROPERTY RegistrationReachesStore
