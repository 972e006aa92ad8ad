SPECIFICATION ProvisioningSpec
CONSTANTS
  request = request
  cli = cli
  acme = acme
  beta = beta
  host1 = host1
  host2 = host2
  Unset = Unset
  Call <- MCCall
  ByRequest <- MCByRequest
  Slug <- MCSlug
  Domain <- MCDomain
CHECK_DEADLOCK FALSE
INVARIANTS ProvisioningTypeOK ProvisionedIsReady
PROPERTY ProvisioningEnds
