SPECIFICATION FormsSpec
CONSTANTS
  HeaderName = {authorization, xsource}
  Sensitive = {authorization}
  Secret = {t1, t2}
  Masked = Masked
  Nothing = Nothing
  MaxSaves = 2
PROPERTIES KeepsUntouchedHeaders
CHECK_DEADLOCK FALSE
