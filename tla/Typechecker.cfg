SPECIFICATION MCSpec
CONSTANTS
    FunctionIds = {1, 2, 3}
    NoHost = 0
INVARIANTS
    TypeOK
    InfoPresent
    CalleesReady
    LambdaWithHost
    OkMeansChecked
