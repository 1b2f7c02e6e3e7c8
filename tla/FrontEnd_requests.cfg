CONSTANTS
  None = None
  Odd = Odd
  c1 = c1
  c2 = c2
  t1 = t1
  t2 = t2
  Issuers <- OneIssuer
  AccessKeys <- OneKey
  Audience = "dist"
  NSlots = 2
  Conns = {c1, c2}
  Inputs <- AllInputs
  GatewayInputs <- SomeGatewayInputs
  EdgeInputs <- CidInputs
  ChunkLimit = 2
  JsonLimit = 3
  S3Limit = 3
  IdleMax = 3
SPECIFICATION FairSpec
INVARIANTS OnlyAuthorized BodyWhole SafeMethods AnsweredOnce
PROPERTY Answered
CHECK_DEADLOCK FALSE
