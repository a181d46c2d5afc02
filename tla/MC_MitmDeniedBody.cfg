SPECIFICATION Spec
CONSTANTS
    f1 = f1
    s3 = s3
    lambda = lambda
    api = api
    db = db
    other = other
    Flows <- OneFlow
    Hosts <- AllHosts
    AwsHosts <- Aws
    S3Hosts <- OnlyS3
    Methods <- Verbs
    Paths <- SomePaths
    Rules <- SomeRules
    Requests <- AllRequests
    Threshold = 1
    MaxBody = 2
INVARIANT LargeBodiesStream
CHECK_DEADLOCK FALSE
