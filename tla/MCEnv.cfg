\* env.ts evaluated once under every environment with values up to 3 characters.
CONSTANTS
    MaxLen = 3
    Undefined = Undefined
    ShaValues = {sha1}
    GitFails = GitFails
    Unknown = Unknown
    Unset = Unset
SPECIFICATION Spec
\* The module is evaluated once; after Load nothing more happens.
CHECK_DEADLOCK FALSE
INVARIANTS TypeOK BasePathsMinimal
