CONSTANTS
    None = None
    Units = {u1}
    Tenants = {t1}
    Requests = {r1, r2}
    MaxLeases = 2
    MaxDeaths = 1
SPECIFICATION Spec
  
PROPERTIES RenewalKept ExpiryHandled
