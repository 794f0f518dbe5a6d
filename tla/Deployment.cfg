CONSTANTS
    DemoKeys <- MCDemoKeys
    ExpectedKeypairs <- MCKeypairs
    ExpectedSecrets = {"AES"}
    MaxTokens = 2
    MaxRuns = 2
    MaxKills = 1
    Messages = {"hello", "bye"}
    KeyIds = {1, 2}
    Bytes = {0, 2, 4, 64, 65, 127, 128, 129, 255}
    Tasks = {t1, t2}
    Requests <- MCRequests
    NoRequest = NoRequest
    Threads = 2
SPECIFICATION DeploySpec
INVARIANTS OneOfEach HealthyMeansKeys CompletedMeansReadable BackendsAgree 
PROPERTIES HealthyAnswers CallsReturn PointReturns
CHECK_DEADLOCK FALSE
