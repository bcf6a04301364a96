SPECIFICATION KeysFairSpec
CONSTANTS
    SignIn = {"a", "b"}
    Ttl = 2
    Delay = 1
    MaxKeys = 2
    MaxFailures = 1
INVARIANT
    WithdrawnKeysExpire
PROPERTY
    SignInWorksAgain
