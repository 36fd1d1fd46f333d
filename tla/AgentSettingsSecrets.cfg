SPECIFICATION Spec
CONSTANTS
  c1 = c1
  c2 = c2
  c3 = c3
  Unset = Unset
  Callers <- TwoCallers
  Clouds <- OneCloud
  Secrets <- MCSecrets
  Malformed <- MCMalformed
  MaxDays = 2
  Updates <- MCUpdates
  Defaults <- MCDefaults
  MaxFailures = 1
PROPERTY
  SecretsNeverDropped
